---------------------------- MODULE Spec2Model ----------------------------
(***************************************************************************)
(* A model of the micro-lending risk platform scripts:                     *)
(*   - the two class-based generators' calculate_comprehensive_risk_scores *)
(*     (excel_based_data_generator.py, comprehensive_excel_generator.py),  *)
(*   - the population agent (ai_agent_population.py),                      *)
(*   - the literacy agent (literacy_agent.py),                             *)
(*   - POST /api/lending-recommendation (banking_intelligence_api.py).     *)
(*                                                                         *)
(* Each program is a state machine over its own variables and has its own  *)
(* specification (SpecRisk, SpecPop, SpecLit, SpecApi); the variables of   *)
(* the other programs stay at their idle values.                           *)
(*                                                                         *)
(* Python None is the empty tuple, a present value x is <<x>>.             *)
(* Scores are fixed point: a component score is kept in hundredths, an     *)
(* overall score in ten-thousandths, so that the weights 0.18, 0.25, ...   *)
(* are the integers 18, 25, ... and no rounding takes place.               *)
(***************************************************************************)
EXTENDS Integers, Sequences, FiniteSets, TLC

VARIABLES
    \* ---- risk scoring (both generators) ----
    gen,        \* which class the dataframe belongs to: "based" | "enhanced"
    df,         \* one row of the borrower dataframe (the code is row-wise)
    riskPc,     \* "generated" | "scored"
    \* ---- population agent ----
    ELECTION_DATA,  \* module-level cache: the dict as a sequence of entries
    popPlaces,      \* first column of the input sheet, a sequence of cells
    popIdx,         \* number of rows the loop of process_excel has consumed
    popResults,     \* results list of process_excel
    popPc,          \* position in process_excel / get_population_for_place
    popOut,         \* the out dict of the running get_population_for_place
    popSearch,      \* the search result held between the search and the claims
    popLog,         \* requests issued by the running get_population_for_place
    popFile,        \* the output workbook, None until written
    \* ---- get_population_from_claims on its own ----
    p1082,          \* data["claims"]["P1082"] of the response
    claimsPc,       \* "called" | "returned" | "raised"
    claimsResult,   \* the value returned
    \* ---- literacy agent ----
    litPlaces,
    litIdx,
    litResults,
    litPc,
    litOut,
    litSearch,
    litLog,
    litPage,        \* the HTML fetched by the running get_literacy_for_place
    litFile,
    \* ---- lending recommendation endpoint ----
    apiPc,          \* "idle" | "responded" | "error"
    apiRequest,     \* the JSON body of the POST
    apiParams,      \* current_params as far as the handler reads it
    apiResponse,    \* the JSON response
    \* ---- the other scripts: one record of local state each ----
    pipeline, \* main.py: run of one command
    platform, \* setup.py: run of setup_platform
    hierarchy, \* generate_enhanced_data.py: the hierarchy being built
    borrower, \* generate_enhanced_data.py: one borrower being scored
    bucket, \* risk bucketing of one score
    lending, \* banking_parameter_agent.py: one risk-score calculation
    params \* banking_intelligence_api.py: repeated get_current_parameters

riskVars == <<gen, df, riskPc>>
popVars  == <<ELECTION_DATA, popPlaces, popIdx, popResults, popPc, popOut,
              popSearch, popLog, popFile>>
litVars  == <<litPlaces, litIdx, litResults, litPc, litOut, litSearch, litLog,
              litPage, litFile>>
apiVars  == <<apiPc, apiRequest, apiParams, apiResponse>>
claimsVars == <<p1082, claimsPc, claimsResult>>
agentVars == <<riskVars, popVars, claimsVars, litVars, apiVars>>
vars     == <<agentVars, pipeline, platform, hierarchy, borrower, bucket, lending, params>>

\* what an action of one program leaves alone
riskOthers == <<popVars, claimsVars, litVars, apiVars,
    pipeline, platform, hierarchy, borrower, bucket, lending, params>>
popOthers == <<riskVars, claimsVars, litVars, apiVars,
    pipeline, platform, hierarchy, borrower, bucket, lending, params>>
claimsOthers == <<riskVars, popVars, litVars, apiVars,
    pipeline, platform, hierarchy, borrower, bucket, lending, params>>
litOthers == <<riskVars, popVars, claimsVars, apiVars,
    pipeline, platform, hierarchy, borrower, bucket, lending, params>>
apiOthers == <<riskVars, popVars, claimsVars, litVars,
    pipeline, platform, hierarchy, borrower, bucket, lending, params>>

pipelineOthers == <<agentVars, platform, hierarchy, borrower, bucket, lending, params>>
platformOthers == <<agentVars, pipeline, hierarchy, borrower, bucket, lending, params>>
hierarchyOthers == <<agentVars, pipeline, platform, borrower, bucket, lending, params>>
borrowerOthers == <<agentVars, pipeline, platform, hierarchy, bucket, lending, params>>
bucketOthers == <<agentVars, pipeline, platform, hierarchy, borrower, lending, params>>
lendingOthers == <<agentVars, pipeline, platform, hierarchy, borrower, bucket, params>>
paramsOthers == <<agentVars, pipeline, platform, hierarchy, borrower, bucket, lending>>

None == <<>>
Some(x) == <<x>>
IsNone(o) == o = <<>>
Val(o) == o[1]

Max2(a, b) == IF a >= b THEN a ELSE b
Min2(a, b) == IF a <= b THEN a ELSE b

(***************************************************************************)
(* Idle values of each program's variables.                                *)
(***************************************************************************)
RiskIdle ==
    /\ gen = "none"
    /\ df = None
    /\ riskPc = "idle"

PopIdle ==
    /\ ELECTION_DATA = <<>>
    /\ popPlaces = <<>>
    /\ popIdx = 0
    /\ popResults = <<>>
    /\ popPc = "idle"
    /\ popOut = None
    /\ popSearch = None
    /\ popLog = <<>>
    /\ popFile = None

LitIdle ==
    /\ litPlaces = <<>>
    /\ litIdx = 0
    /\ litResults = <<>>
    /\ litPc = "idle"
    /\ litOut = None
    /\ litSearch = None
    /\ litLog = <<>>
    /\ litPage = None
    /\ litFile = None

ApiIdle ==
    /\ apiPc = "off"
    /\ apiRequest = None
    /\ apiParams = None
    /\ apiResponse = None

ClaimsIdle ==
    /\ p1082 = <<>>
    /\ claimsPc = "idle"
    /\ claimsResult = None

\* a script that is not running
Off == [pc |-> "off"]

ScriptsIdle ==
    /\ pipeline = Off
    /\ platform = Off
    /\ hierarchy = Off
    /\ borrower = Off
    /\ bucket = Off
    /\ lending = Off
    /\ params = Off

AgentsIdle == RiskIdle /\ PopIdle /\ ClaimsIdle /\ LitIdle /\ ApiIdle


(***************************************************************************)
(*                 RISK SCORING: the two class-based generators            *)
(***************************************************************************)

\* (cond).astype(int)
Ind(b) == IF b THEN 1 ELSE 0

\* np.clip(x, lo, hi)
Clip(x, lo, hi) == IF x < lo THEN lo ELSE IF x > hi THEN hi ELSE x

\* pd.cut(x, bins, labels, include_lowest): right-closed intervals
\* (bins[i], bins[i+1]]; the first interval is closed on the left only with
\* include_lowest=True; a value in no interval is NaN.
Cut(x, bins, labels, include_lowest) ==
    IF \E i \in 1..Len(labels) : bins[i] < x /\ x <= bins[i + 1]
    THEN labels[CHOOSE i \in 1..Len(labels) : bins[i] < x /\ x <= bins[i + 1]]
    ELSE IF include_lowest /\ x = bins[1]
         THEN labels[1]
         ELSE "NaN"

RiskLabels == <<"Low Risk", "Medium Risk", "High Risk", "Very High Risk">>

\* bin edges of a 0-100 score, in ten-thousandths
ScaledBins(bins) == [i \in 1..Len(bins) |-> bins[i] * 10000]

\* The rows of one component with the least and with the greatest raw risk.
RefLoan == [requested_loan_amount |-> 50000]

\* (Rows of the financial and the asset component are compared at RefLoan.)
Extremes(Rows, Raw(_)) ==
    {r \in Rows : \/ \A q \in Rows : Raw(r @@ RefLoan) <= Raw(q @@ RefLoan)
                  \/ \A q \in Rows : Raw(r @@ RefLoan) >= Raw(q @@ RefLoan)}

\* requested_loan_amount: a value both generators draw
LoanRows == {RefLoan}

\* monthly_income: 20000 is a value the generators draw; 90 lies below their
\* floor and makes the income-to-loan indicator fire.
Incomes == {90, 20000}

(*------------------------ ExcelBasedDataGenerator ------------------------*)

BasedDemoRisk(r) ==
      Ind(r.age > 55) * 15
    + Ind(r.education_level = "Illiterate") * 20
    + Ind(r.family_size > 6) * 10
    + Ind(r.years_in_location < 2) * 15

\* income_to_loan_ratio = monthly_income / requested_loan_amount * 1000
\* expense_ratio        = monthly_expenses / monthly_income
BasedFinancialRisk(r) ==
      Ind(r.monthly_income * 1000 < 5 * r.requested_loan_amount) * 25
    + Ind(r.monthly_expenses * 10 > 8 * r.monthly_income) * 20
    + Ind(~r.has_bank_account) * 15
    + Ind(r.existing_loans > 1) * 20
    + Ind(r.previous_defaults > 0) * 30
    + Ind(r.savings_amount < r.monthly_income) * 10

BasedAssetRisk(r) ==
      Ind(~r.owns_land) * 15
    + Ind(~r.owns_vehicle) * 10
    + Ind(~r.electricity_access) * 15
    + Ind(r.road_connectivity = "Mud") * 15
    + Ind(~r.internet_access) * 10
    + Ind(r.collateral_value < r.requested_loan_amount) * 20

BasedSocialRisk(r) ==
      Ind(~r.shg_member) * 15
    + Ind(~r.mobile_ownership) * 10
    + Ind(~r.aadhaar_linked) * 10
    + Ind(r.seasonal_migration) * 20
    + Ind(r.financial_literacy_score < 5) * 15

BasedDocRisk(r) ==
      Ind(~r.pan_card) * 20
    + Ind(~r.insurance_coverage) * 10
    + Ind(r.credit_history_length = 0) * 25

\* np.clip(risk * w, 0, 100), in hundredths
BasedComponentScores(r) ==
    [demographic_risk_score          |-> Clip(BasedDemoRisk(r) * 20, 0, 100 * 100),
     financial_risk_score            |-> Clip(BasedFinancialRisk(r) * 30, 0, 100 * 100),
     asset_infrastructure_risk_score |-> Clip(BasedAssetRisk(r) * 25, 0, 100 * 100),
     social_behavioral_risk_score    |-> Clip(BasedSocialRisk(r) * 15, 0, 100 * 100),
     documentation_risk_score        |-> Clip(BasedDocRisk(r) * 10, 0, 100 * 100)]

\* a slip of the decimal point in one weight: 3 for 0.3
BasedOverallWeightSlip(s) ==
      s.demographic_risk_score * 20
    + s.financial_risk_score * 300
    + s.asset_infrastructure_risk_score * 25
    + s.social_behavioral_risk_score * 15
    + s.documentation_risk_score * 10

\* overall_risk_score, in ten-thousandths
BasedOverall(s) ==
      s.demographic_risk_score * 20
    + s.financial_risk_score * 30
    + s.asset_infrastructure_risk_score * 25
    + s.social_behavioral_risk_score * 15
    + s.documentation_risk_score * 10

BasedCategory(overall) ==
    Cut(overall, ScaledBins(<<0, 25, 50, 75, 100>>), RiskLabels, FALSE)

BasedDemoRows ==
    [age : {30, 60}, education_level : {"Illiterate", "Secondary"},
     family_size : {4, 7}, years_in_location : {1, 5}]

BasedFinancialRows ==
    {[monthly_income |-> i, monthly_expenses |-> (i * p) \div 100,
      has_bank_account |-> b, existing_loans |-> l, previous_defaults |-> d,
      savings_amount |-> i * m] :
        i \in Incomes, p \in {70, 85}, b \in BOOLEAN, l \in {0, 2},
        d \in {0, 1}, m \in {0, 2}}

BasedAssetRows ==
    [owns_land : BOOLEAN, owns_vehicle : BOOLEAN, electricity_access : BOOLEAN,
     road_connectivity : {"Paved", "Mud"}, internet_access : BOOLEAN,
     collateral_value : {0, 100000}]

BasedSocialRows ==
    [shg_member : BOOLEAN, mobile_ownership : BOOLEAN, aadhaar_linked : BOOLEAN,
     seasonal_migration : BOOLEAN, financial_literacy_score : {3, 7}]

BasedDocRows ==
    [pan_card : BOOLEAN, insurance_coverage : BOOLEAN,
     credit_history_length : {0, 3}]

BasedComponents == {"demographic", "financial", "asset", "social", "doc"}

BasedDemoExtremes == Extremes(BasedDemoRows, BasedDemoRisk)
BasedFinancialExtremes == Extremes(BasedFinancialRows, BasedFinancialRisk)
BasedAssetExtremes == Extremes(BasedAssetRows, BasedAssetRisk)
BasedSocialExtremes == Extremes(BasedSocialRows, BasedSocialRisk)
BasedDocExtremes == Extremes(BasedDocRows, BasedDocRisk)

\* Borrower rows: one component ranges over every combination of its
\* columns while each other component is at one of its two extremes.
BasedBorrower(row) ==
    \E c \in BasedComponents, l \in LoanRows :
      \E d \in IF c = "demographic" THEN BasedDemoRows ELSE BasedDemoExtremes,
         f \in IF c = "financial" THEN BasedFinancialRows ELSE BasedFinancialExtremes,
         a \in IF c = "asset" THEN BasedAssetRows ELSE BasedAssetExtremes,
         s \in IF c = "social" THEN BasedSocialRows ELSE BasedSocialExtremes,
         k \in IF c = "doc" THEN BasedDocRows ELSE BasedDocExtremes :
        row = d @@ f @@ a @@ s @@ k @@ l

\* ExcelBasedDataGenerator.calculate_comprehensive_risk_scores
CalculateBased ==
    /\ gen = "based"
    /\ riskPc = "generated"
    /\ LET s == BasedComponentScores(df)
           o == BasedOverall(s)
       IN df' = df @@ s @@ [overall_risk_score |-> o,
                            risk_category |-> BasedCategory(o)]
    /\ riskPc' = "scored"
    /\ UNCHANGED <<gen, riskOthers>>


(*----------------------- ExcelEnhancedDataGenerator ----------------------*)

EnhancedDemoRisk(r) ==
      Ind(r.age > 60) * 12
    + Ind(r.age < 25) * 8
    + Ind(r.education_level = "Illiterate") * 20
    + Ind(r.family_size > 7) * 10
    + Ind(r.years_in_location < 3) * 12

\* credit_score is None for a borrower without credit history:
\* (credit_score.fillna(0) < 600) & credit_score.notna()
EnhancedFinancialRisk(r) ==
      Ind(r.monthly_income * 1000 < 6 * r.requested_loan_amount) * 25
    + Ind(r.monthly_expenses * 100 > 85 * r.monthly_income) * 20
    + Ind(~r.has_bank_account) * 15
    + Ind(r.existing_loans > 2) * 20
    + Ind(r.previous_defaults > 0) * 35
    + Ind(r.savings_amount < r.monthly_income) * 10
    + Ind((IF IsNone(r.credit_score) THEN 0 ELSE Val(r.credit_score)) < 600
          /\ ~IsNone(r.credit_score)) * 15

EnhancedAssetRisk(r) ==
      Ind(~r.owns_house) * 12
    + Ind(r.house_type = "Kutcha") * 8
    + Ind(~r.owns_land) * 15
    + Ind(~r.owns_vehicle) * 8
    + Ind(~r.collateral_offered) * 18
    + Ind(r.collateral_value < r.requested_loan_amount) * 15
    + Ind(~r.guarantor_available) * 10

EnhancedSocialRisk(r) ==
      Ind(~r.shg_member) * 15
    + Ind(~r.mobile_ownership) * 12
    + Ind(~r.aadhaar_linked) * 10
    + Ind(r.seasonal_migration) * 18
    + Ind(r.financial_literacy_score < 5) * 12
    + Ind(r.community_reputation = "Poor") * 20
    + Ind(~r.local_leader_recommendation) * 8

EnhancedInfrastructureRisk(r) ==
      Ind(~r.electricity_connection) * 15
    + Ind(r.water_source \in {"Hand Pump", "Public Tap"}) * 10
    + Ind(~r.toilet_facility) * 8
    + Ind(r.road_connectivity = "Mud") * 12
    + Ind(~r.internet_usage) * 8
    + Ind(r.market_access_score < 5) * 10

EnhancedDocRisk(r) ==
      Ind(~r.pan_card) * 20
    + Ind(~r.insurance_life) * 10
    + Ind(~r.insurance_health) * 12
    + Ind(r.credit_history_length = 0) * 25
    + Ind(~r.voter_id) * 5

\* np.clip(risk * w, 0, 100), in hundredths
EnhancedComponentScores(r) ==
    [demographic_risk_score      |-> Clip(EnhancedDemoRisk(r) * 18, 0, 100 * 100),
     financial_risk_score        |-> Clip(EnhancedFinancialRisk(r) * 25, 0, 100 * 100),
     asset_collateral_risk_score |-> Clip(EnhancedAssetRisk(r) * 22, 0, 100 * 100),
     social_digital_risk_score   |-> Clip(EnhancedSocialRisk(r) * 15, 0, 100 * 100),
     infrastructure_risk_score   |-> Clip(EnhancedInfrastructureRisk(r) * 12, 0, 100 * 100),
     documentation_risk_score    |-> Clip(EnhancedDocRisk(r) * 8, 0, 100 * 100)]

\* overall_risk_score, in ten-thousandths
EnhancedOverall(s) ==
      s.demographic_risk_score * 18
    + s.financial_risk_score * 25
    + s.asset_collateral_risk_score * 22
    + s.social_digital_risk_score * 15
    + s.infrastructure_risk_score * 12
    + s.documentation_risk_score * 8

EnhancedCategory(overall) ==
    Cut(overall, ScaledBins(<<0, 20, 40, 65, 100>>), RiskLabels, TRUE)

EnhancedDemoRows ==
    [age : {20, 40, 65}, education_level : {"Illiterate", "Secondary"},
     family_size : {4, 8}, years_in_location : {1, 5}]

EnhancedFinancialRows ==
    {[monthly_income |-> i, monthly_expenses |-> (i * p) \div 100,
      has_bank_account |-> b, existing_loans |-> l, previous_defaults |-> d,
      savings_amount |-> i * m, credit_score |-> cs] :
        i \in Incomes, p \in {70, 87}, b \in BOOLEAN, l \in {0, 3},
        d \in {0, 1}, m \in {0, 2}, cs \in {None, Some(500), Some(700)}}

EnhancedAssetRows ==
    [owns_house : BOOLEAN, house_type : {"Kutcha", "Pucca"}, owns_land : BOOLEAN,
     owns_vehicle : BOOLEAN, collateral_offered : BOOLEAN,
     collateral_value : {0, 100000}, guarantor_available : BOOLEAN]

EnhancedSocialRows ==
    [shg_member : BOOLEAN, mobile_ownership : BOOLEAN, aadhaar_linked : BOOLEAN,
     seasonal_migration : BOOLEAN, financial_literacy_score : {3, 7},
     community_reputation : {"Good", "Poor"},
     local_leader_recommendation : BOOLEAN]

EnhancedInfrastructureRows ==
    [electricity_connection : BOOLEAN,
     water_source : {"Piped", "Hand Pump"},
     toilet_facility : BOOLEAN, road_connectivity : {"Paved", "Mud"},
     internet_usage : BOOLEAN, market_access_score : {3, 7}]

EnhancedDocRows ==
    [pan_card : BOOLEAN, insurance_life : BOOLEAN, insurance_health : BOOLEAN,
     credit_history_length : {0, 3}, voter_id : BOOLEAN]

EnhancedComponents ==
    {"demographic", "financial", "asset", "social", "infrastructure", "doc"}

EnhancedDemoExtremes == Extremes(EnhancedDemoRows, EnhancedDemoRisk)
EnhancedFinancialExtremes == Extremes(EnhancedFinancialRows, EnhancedFinancialRisk)
EnhancedAssetExtremes == Extremes(EnhancedAssetRows, EnhancedAssetRisk)
EnhancedSocialExtremes == Extremes(EnhancedSocialRows, EnhancedSocialRisk)
EnhancedInfrastructureExtremes == Extremes(EnhancedInfrastructureRows, EnhancedInfrastructureRisk)
EnhancedDocExtremes == Extremes(EnhancedDocRows, EnhancedDocRisk)

EnhancedBorrower(row) ==
    \E c \in EnhancedComponents, l \in LoanRows :
      \E d \in IF c = "demographic" THEN EnhancedDemoRows ELSE EnhancedDemoExtremes,
         f \in IF c = "financial" THEN EnhancedFinancialRows
               ELSE EnhancedFinancialExtremes,
         a \in IF c = "asset" THEN EnhancedAssetRows ELSE EnhancedAssetExtremes,
         s \in IF c = "social" THEN EnhancedSocialRows ELSE EnhancedSocialExtremes,
         n \in IF c = "infrastructure" THEN EnhancedInfrastructureRows
               ELSE EnhancedInfrastructureExtremes,
         k \in IF c = "doc" THEN EnhancedDocRows ELSE EnhancedDocExtremes :
        row = d @@ f @@ a @@ s @@ n @@ k @@ l

\* ExcelEnhancedDataGenerator.calculate_comprehensive_risk_scores
CalculateEnhanced ==
    /\ gen = "enhanced"
    /\ riskPc = "generated"
    /\ LET s == EnhancedComponentScores(df)
           o == EnhancedOverall(s)
       IN df' = df @@ s @@ [overall_risk_score |-> o,
                            risk_category |-> EnhancedCategory(o)]
    /\ riskPc' = "scored"
    /\ UNCHANGED <<gen, riskOthers>>

RiskInit ==
    /\ gen \in {"based", "enhanced"}
    /\ IF gen = "based" THEN BasedBorrower(df) ELSE EnhancedBorrower(df)
    /\ riskPc = "generated"
    /\ PopIdle /\ ClaimsIdle /\ LitIdle /\ ApiIdle /\ ScriptsIdle

RiskNext ==
    \/ CalculateBased
    \/ CalculateEnhanced

SpecRisk == RiskInit /\ [][RiskNext]_vars

ComponentScoreNames ==
    IF gen = "based"
    THEN {"demographic_risk_score", "financial_risk_score",
          "asset_infrastructure_risk_score", "social_behavioral_risk_score",
          "documentation_risk_score"}
    ELSE {"demographic_risk_score", "financial_risk_score",
          "asset_collateral_risk_score", "social_digital_risk_score",
          "infrastructure_risk_score", "documentation_risk_score"}

\* C1: after calculate_comprehensive_risk_scores of either generator, every
\* component risk score and the overall_risk_score of the borrower lie in
\* the closed range [0, 100] (hundredths resp. ten-thousandths here).
C1_ScoresInRange ==
    riskPc = "scored" =>
        /\ \A n \in ComponentScoreNames : df[n] >= 0 /\ df[n] <= 100 * 100
        /\ df.overall_risk_score >= 0
        /\ df.overall_risk_score <= 100 * 10000

\* a scored borrower of each generator whose indicators all fire
C1_Witness ==
    /\ riskPc = "scored"
    /\ gen = "based"
    /\ df.demographic_risk_score = 60 * 20
    /\ df.financial_risk_score = 120 * 30
    /\ df.overall_risk_score = 206375

\* C2 (as claimed): every scored borrower has one of the four labels.
C2_EveryBorrowerLabelled ==
    riskPc = "scored" =>
        \E i \in 1..Len(RiskLabels) : df.risk_category = RiskLabels[i]


(***************************************************************************)
(*                 POPULATION AGENT: ai_agent_population.py                *)
(*                                                                         *)
(* A string is a tuple of one-character strings.                           *)
(***************************************************************************)

IsSpace(c) == c = " "

\* str.lower on the characters used here
LowerChar(c) ==
    CASE c = "A" -> "a"
      [] c = "B" -> "b"
      [] c = "C" -> "c"
      [] c = "D" -> "d"
      [] c = "X" -> "x"
      [] c = "Y" -> "y"
      [] c = "E" -> "e"
      [] c = "S" -> "s"
      [] OTHER -> c

\* [a-z0-9 ] of the characters used here
IsAlnumOrSpace(c) == c \in {"a", "b", "c", "d", "x", "0", "1", " "}

RECURSIVE LStrip(_)
LStrip(s) ==
    IF s # <<>> /\ IsSpace(Head(s)) THEN LStrip(Tail(s)) ELSE s

RECURSIVE RStrip(_)
RStrip(s) ==
    IF s # <<>> /\ IsSpace(s[Len(s)]) THEN RStrip(SubSeq(s, 1, Len(s) - 1)) ELSE s

\* str.strip()
Strip(s) == RStrip(LStrip(s))

Lower(s) == [i \in 1..Len(s) |-> LowerChar(s[i])]

\* re.sub(r"\s+", " ", s)
RECURSIVE CollapseSpaces(_)
CollapseSpaces(s) ==
    IF s = <<>> THEN <<>>
    ELSE IF IsSpace(Head(s))
         THEN <<" ">> \o CollapseSpaces(LStrip(Tail(s)))
         ELSE <<Head(s)>> \o CollapseSpaces(Tail(s))

\* normalize_name
normalize_name(s) ==
    SelectSeq(CollapseSpaces(Lower(Strip(s))), IsAlnumOrSpace)

\* a in b (substring)
Contains(b, a) ==
    /\ Len(a) <= Len(b)
    /\ \E i \in 0..(Len(b) - Len(a)) : SubSeq(b, i + 1, i + Len(a)) = a

\* set(s.split())
RECURSIVE SplitWords(_, _)
SplitWords(s, cur) ==
    IF s = <<>> THEN (IF cur = <<>> THEN {} ELSE {cur})
    ELSE IF IsSpace(Head(s))
         THEN (IF cur = <<>> THEN {} ELSE {cur}) \cup SplitWords(Tail(s), <<>>)
         ELSE SplitWords(Tail(s), Append(cur, Head(s)))

Words(s) == SplitWords(s, <<>>)

\* " ".join(words)
RECURSIVE JoinWords(_)
JoinWords(ws) ==
    IF ws = <<>> THEN <<>>
    ELSE IF Len(ws) = 1 THEN ws[1]
    ELSE ws[1] \o <<" ">> \o JoinWords(Tail(ws))

\* d[key] = value on an insertion-ordered dict kept as a sequence of entries
DictPut(d, key, population) ==
    IF \E i \in 1..Len(d) : d[i].key = key
    THEN [i \in 1..Len(d) |->
            IF d[i].key = key THEN [key |-> key, population |-> population]
            ELSE d[i]]
    ELSE Append(d, [key |-> key, population |-> population])

\* A table cell: kind "num" (digits, val its value), "text", or "badnum"
\* (digits with inner blanks: passes the \d+ test, int() raises, dropped).
NumCell(n) == [kind |-> "num", val |-> n, text |-> <<>>]
TextCell(t) == [kind |-> "text", val |-> 0, text |-> t]
BadNumCell == [kind |-> "badnum", val |-> 0, text |-> <<>>]

RowNums(cells) == SelectSeq(cells, LAMBDA c : c.kind = "num")
RowNameParts(cells) == SelectSeq(cells, LAMBDA c : c.kind = "text")

\* max(nums)
RECURSIVE MaxVal(_)
MaxVal(cells) ==
    IF Len(cells) = 1 THEN cells[1].val
    ELSE Max2(cells[1].val, MaxVal(Tail(cells)))

\* max(name_parts, key=len): the first of the longest
LongestText(cells) ==
    cells[CHOOSE i \in 1..Len(cells) :
            /\ \A j \in 1..Len(cells) : Len(cells[j].text) <= Len(cells[i].text)
            /\ \A j \in 1..(i - 1) : Len(cells[j].text) < Len(cells[i].text)].text

\* the table rows of load_election_data
RECURSIVE TableEntries(_, _)
TableEntries(rows, d) ==
    IF rows = <<>> THEN d
    ELSE LET cells == Head(rows)
             nums == RowNums(cells)
             name_parts == RowNameParts(cells)
         IN IF nums # <<>> /\ name_parts # <<>>
            THEN TableEntries(Tail(rows),
                     DictPut(d, normalize_name(LongestText(name_parts)), MaxVal(nums)))
            ELSE TableEntries(Tail(rows), d)

\* the text lines of load_election_data: a line is its words before the last
\* token and the last token's value when that token is a number
RECURSIVE LineEntries(_, _)
LineEntries(lines, d) ==
    IF lines = <<>> THEN d
    ELSE LET ln == Head(lines)
         IN IF ~IsNone(ln.last) /\ Len(ln.words) >= 1
            THEN LineEntries(Tail(lines),
                     DictPut(d, normalize_name(JoinWords(ln.words)), Val(ln.last)))
            ELSE LineEntries(Tail(lines), d)

\* load_election_data after a successful GET of the page
ParseElectionPage(page) ==
    LET fromTables == TableEntries(page.rows, <<>>)
    IN IF fromTables # <<>> THEN fromTables ELSE LineEntries(page.lines, <<>>)

\* the word-overlap stage of election_lookup
WordScore(place, key) == Cardinality(Words(place) \cap Words(key))

\* election_lookup on a loaded ELECTION_DATA: None or {"population", "year"}.
\* Stages: exact key, then the first entry (in insertion order) that contains
\* the place or is contained in it, then the entry sharing most words.
ElectionMatch(data, place) ==
    LET norm_place == normalize_name(place)
        Hit(i) == Some([population |-> data[i].population, year |-> 2025])
        exact == {i \in 1..Len(data) : data[i].key = norm_place}
        partial == {i \in 1..Len(data) :
                      \/ norm_place = data[i].key
                      \/ Contains(data[i].key, norm_place)
                      \/ Contains(norm_place, data[i].key)}
        scored == {i \in 1..Len(data) : WordScore(norm_place, data[i].key) > 0}
    IN IF data = <<>> THEN None
       ELSE IF exact # {}
            THEN Hit(CHOOSE i \in exact : TRUE)
       ELSE IF partial # {}
            THEN Hit(CHOOSE i \in partial : \A j \in partial : i <= j)
       ELSE IF scored # {}
            THEN Hit(CHOOSE i \in scored :
                       /\ \A j \in scored :
                            WordScore(norm_place, data[j].key)
                              <= WordScore(norm_place, data[i].key)
                       /\ \A j \in scored :
                            j < i => WordScore(norm_place, data[j].key)
                                       < WordScore(norm_place, data[i].key))
       ELSE None

\* Pages the election site may serve.
ElectionPages ==
    { \* a table: a header row, two constituency rows
      [rows |-> << <<TextCell(<<"a">>), TextCell(<<"b">>)>>,
                   <<TextCell(<<"A", "-", "b">>), NumCell(120), NumCell(250)>>,
                   <<TextCell(<<"c">>), TextCell(<<"c", " ", "d">>), NumCell(90),
                     BadNumCell>> >>,
       lines |-> <<>>],
      \* no table, plain lines "A-b 300" and "x"
      [rows |-> <<>>,
       lines |-> << [words |-> << <<"A", "-", "b">> >>, last |-> Some(300)],
                    [words |-> << <<"x">> >>, last |-> None] >>],
      \* nothing to parse
      [rows |-> << <<TextCell(<<"a">>)>> >>, lines |-> <<>>] }

\* What a GET of the election page does: the page, a request failure
\* (caught in load_election_data), or content the parser raises on.
ElectionResponses ==
    {[kind |-> "page", page |-> pg] : pg \in ElectionPages}
      \cup {[kind |-> "error", page |-> None], [kind |-> "unparseable", page |-> None]}


(*----------------------- get_population_from_claims ----------------------*)

\* A P1082 claim as far as the code reads it:
\*   dv     - mainsnak.datavalue is present and non-empty
\*   amount - <<"num", n>> ("+n"), <<"inf">> (parses as a float, int() raises),
\*            <<"bad">> (float() raises) or <<"absent">> (no "amount")
\*   time   - <<"time", y>> (P585 "+y-.."), <<"bad">> (P585 that does not
\*            parse) or <<"absent">> (no P585 qualifier)
\* float(value["amount"]) guarded by try/except
ParseAmount(a) ==
    CASE a[1] = "num" -> Some([finite |-> TRUE, v |-> a[2]])
      [] a[1] = "inf" -> Some([finite |-> FALSE, v |-> 0])
      [] OTHER -> None

\* int(time_str.lstrip("+").split("-")[0]) guarded by try/except
ParseYear(t) == IF t[1] = "time" THEN Some(t[2]) ELSE None

\* one pass of the for loop, with "year > best_year" mutated to ">="
RECURSIVE BestClaimLatestOnTies(_, _, _)
BestClaimLatestOnTies(claims, best_claim, best_year) ==
    IF claims = <<>> THEN [claim |-> best_claim, year |-> best_year]
    ELSE LET claim == Head(claims)
             year == ParseYear(claim.time)
         IN IF ~claim.dv
            THEN BestClaimLatestOnTies(Tail(claims), best_claim, best_year)
            ELSE IF ~IsNone(year)
                 THEN IF IsNone(best_year) \/ Val(year) >= Val(best_year)
                      THEN BestClaimLatestOnTies(Tail(claims), Some(claim), year)
                      ELSE BestClaimLatestOnTies(Tail(claims), best_claim, best_year)
                 ELSE IF IsNone(best_claim)
                      THEN BestClaimLatestOnTies(Tail(claims), Some(claim), best_year)
                      ELSE BestClaimLatestOnTies(Tail(claims), best_claim, best_year)

\* the for loop over the claims (lines 174-211)
RECURSIVE BestClaim(_, _, _)
BestClaim(claims, best_claim, best_year) ==
    IF claims = <<>> THEN [claim |-> best_claim, year |-> best_year]
    ELSE LET claim == Head(claims)
             year == ParseYear(claim.time)
         IN IF ~claim.dv
            THEN BestClaim(Tail(claims), best_claim, best_year)
            ELSE IF ~IsNone(year)
                 THEN IF IsNone(best_year) \/ Val(year) > Val(best_year)
                      THEN BestClaim(Tail(claims), Some(claim), year)
                      ELSE BestClaim(Tail(claims), best_claim, best_year)
                 ELSE IF IsNone(best_claim)
                      THEN BestClaim(Tail(claims), Some(claim), best_year)
                      ELSE BestClaim(Tail(claims), best_claim, best_year)

\* get_population_from_claims with the mutated loop
PopulationFromClaimsLatestOnTies(claims) ==
    IF claims = <<>> THEN [raised |-> FALSE, value |-> None]
    ELSE LET b == BestClaimLatestOnTies(claims, None, None)
         IN IF IsNone(b.claim) THEN [raised |-> FALSE, value |-> None]
            ELSE LET amount == ParseAmount(Val(b.claim).amount)
                 IN IF ~IsNone(amount) /\ ~Val(amount).finite
                    THEN [raised |-> TRUE, value |-> None]
                    ELSE [raised |-> FALSE,
                          value |-> Some([population |->
                                            IF IsNone(amount) THEN None
                                            ELSE Some(Val(amount).v),
                                          year |-> b.year])]

\* get_population_from_claims on the parsed response: it returns None or a
\* {"population", "year"} dict, or raises (int() of a non-finite float).
PopulationFromClaims(claims) ==
    IF claims = <<>> THEN [raised |-> FALSE, value |-> None]
    ELSE LET b == BestClaim(claims, None, None)
         IN IF IsNone(b.claim) THEN [raised |-> FALSE, value |-> None]
            ELSE LET amount == ParseAmount(Val(b.claim).amount)
                 IN IF ~IsNone(amount) /\ ~Val(amount).finite
                    THEN [raised |-> TRUE, value |-> None]
                    ELSE [raised |-> FALSE,
                          value |-> Some([population |->
                                            IF IsNone(amount) THEN None
                                            ELSE Some(Val(amount).v),
                                          year |-> b.year])]

Claim(dv, amount, time) == [dv |-> dv, amount |-> amount, time |-> time]


(*------------------ get_population_for_place, process_excel --------------*)

MaxPlaces == 2

\* Cells of the first column after astype(str): an exact key of the election
\* table, a part of a key, a name sharing a word with a key, an unknown
\* place and a blank cell.
PlaceNames ==
    { <<"A", "b">>, <<"b">>, <<"d", " ", "x">>, <<"x">>, <<" ">> }

PlaceLists == UNION {[1..n -> PlaceNames] : n \in 0..MaxPlaces}

\* A note is the tuple of the pieces of the (f-)string.
Note(kind) == <<kind>>
ErrorNote(prefix, e) == <<prefix, e>>
NoteKind(notes) == notes[1]

\* What the GET of wbsearchentities does: a failure inside
\* search_wikidata_entity (request, HTTP status, JSON), or a JSON body with
\* its "search" list. An entry of the list is a non-empty dict ("dict"), an
\* empty dict ("emptydict") or a JSON string ("str").
SearchEntity(id, label, title) ==
    [type |-> "dict", id |-> id, label |-> label, title |-> title]

SearchResponses ==
    { [kind |-> "error", e |-> "ConnectionError", search |-> <<>>],
      [kind |-> "error", e |-> "HTTPError", search |-> <<>>],
      [kind |-> "json", e |-> "", search |-> <<>>],
      [kind |-> "json", e |-> "",
       search |-> <<SearchEntity(Some("Q1"), Some("Ab"), None)>>],
      [kind |-> "json", e |-> "",
       search |-> <<SearchEntity(None, None, Some("Ab"))>>],
      [kind |-> "json", e |-> "",
       search |-> <<[type |-> "emptydict", id |-> None, label |-> None,
                     title |-> None]>>],
      [kind |-> "json", e |-> "",
       search |-> <<[type |-> "str", id |-> None, label |-> None,
                     title |-> None]>>] }

\* search_wikidata_entity: raises, or returns None or results[0]
SearchResult(resp) ==
    IF resp.kind = "error" THEN [raised |-> TRUE, e |-> resp.e, value |-> None]
    ELSE IF resp.search = <<>> THEN [raised |-> FALSE, e |-> "", value |-> None]
    ELSE [raised |-> FALSE, e |-> "", value |-> Some(resp.search[1])]

\* bool(x) of a search result
Truthy(search) == ~IsNone(search) /\ Val(search).type # "emptydict"

\* a or b
OrElse(a, b) == IF ~IsNone(a) THEN a ELSE b

\* What the GET of wbgetclaims does.
ClaimsResponses ==
    { [kind |-> "error", e |-> "Timeout", claims |-> <<>>],
      [kind |-> "json", e |-> "", claims |-> <<>>],
      [kind |-> "json", e |-> "",
       claims |-> <<Claim(FALSE, <<"absent">>, <<"absent">>)>>],
      [kind |-> "json", e |-> "",
       claims |-> <<Claim(TRUE, <<"num", 1000>>, <<"time", 2001>>),
                    Claim(TRUE, <<"num", 1200>>, <<"time", 2011>>)>>],
      [kind |-> "json", e |-> "",
       claims |-> <<Claim(TRUE, <<"bad">>, <<"absent">>)>>],
      [kind |-> "json", e |-> "",
       claims |-> <<Claim(TRUE, <<"inf">>, <<"time", 2011>>)>>] }

\* out = {"input_name": place, "wikidata_id": None, ...}
NewOut(place) ==
    [input_name |-> place, wikidata_id |-> None, wikidata_label |-> None,
     population |-> None, population_year |-> None, notes |-> None]

PopPlace == popPlaces[popIdx]

GetEvent(ep, result) == [ev |-> "GET", ep |-> ep, result |-> result]
ElectEvent(result) == [ev |-> "elect", ep |-> "", result |-> result]

PopInit ==
    /\ ELECTION_DATA = <<>>
    /\ popPlaces \in PlaceLists
    /\ popIdx = 0
    /\ popResults = <<>>
    /\ popPc = "loop"
    /\ popOut = None
    /\ popSearch = None
    /\ popLog = <<>>
    /\ popFile = None
    /\ RiskIdle /\ ClaimsIdle /\ LitIdle /\ ApiIdle /\ ScriptsIdle

\* process_excel: a blank cell gets an "empty-input" row without any lookup
PopEmptyInput ==
    /\ popPc = "loop"
    /\ popIdx < Len(popPlaces)
    /\ Strip(popPlaces[popIdx + 1]) = <<>>
    /\ popIdx' = popIdx + 1
    /\ popResults' = Append(popResults,
           [NewOut(popPlaces[popIdx + 1]) EXCEPT !.notes = Some(Note("empty-input"))])
    /\ UNCHANGED <<ELECTION_DATA, popPlaces, popPc, popOut, popSearch, popLog,
                   popFile, popOthers>>

\* process_excel calls get_population_for_place(place)
PopCall ==
    /\ popPc = "loop"
    /\ popIdx < Len(popPlaces)
    /\ Strip(popPlaces[popIdx + 1]) # <<>>
    /\ popIdx' = popIdx + 1
    /\ popOut' = Some(NewOut(popPlaces[popIdx + 1]))
    /\ popSearch' = None
    /\ popLog' = <<>>
    /\ popPc' = "election"
    /\ UNCHANGED <<ELECTION_DATA, popPlaces, popResults, popFile,
                   popOthers>>

\* the election step with "return out" lost: the match is recorded and the
\* function goes on to Wikidata
PopElectionFallsThrough ==
    /\ popPc = "election"
    /\ \E resp \in ElectionResponses :
         LET cached == ELECTION_DATA # <<>>
             data == IF cached THEN ELECTION_DATA
                     ELSE IF resp.kind = "page" THEN ParseElectionPage(resp.page)
                     ELSE <<>>
             raised == ~cached /\ resp.kind = "unparseable"
             elect == IF raised THEN None ELSE ElectionMatch(data, PopPlace)
             gets == IF cached THEN <<>> ELSE <<GetEvent("election", resp.kind)>>
         IN /\ ELECTION_DATA' = data
            /\ popLog' = popLog \o gets \o
                 <<ElectEvent(IF raised THEN "raised"
                              ELSE IF IsNone(elect) THEN "none" ELSE "match")>>
            /\ IF ~IsNone(elect)
               THEN popOut' = Some([Val(popOut) EXCEPT
                          !.population = Some(Val(elect).population),
                          !.population_year = Some(Val(elect).year),
                          !.notes = Some(Note("election-site"))])
               ELSE popOut' = popOut
            /\ popPc' = "search"
    /\ UNCHANGED <<popPlaces, popIdx, popResults, popSearch, popFile,
                   popOthers>>

\* get_population_for_place, lines 235-244: election_lookup (which loads the
\* election page unless ELECTION_DATA is already filled) inside try/except
PopElection ==
    /\ popPc = "election"
    /\ \E resp \in ElectionResponses :
         LET cached == ELECTION_DATA # <<>>
             data == IF cached THEN ELECTION_DATA
                     ELSE IF resp.kind = "page" THEN ParseElectionPage(resp.page)
                     ELSE <<>>
             raised == ~cached /\ resp.kind = "unparseable"
             elect == IF raised THEN None ELSE ElectionMatch(data, PopPlace)
             gets == IF cached THEN <<>> ELSE <<GetEvent("election", resp.kind)>>
         IN /\ ELECTION_DATA' = data
            /\ popLog' = popLog \o gets \o
                 <<ElectEvent(IF raised THEN "raised"
                              ELSE IF IsNone(elect) THEN "none" ELSE "match")>>
            /\ IF ~IsNone(elect)
               THEN /\ popOut' = Some([Val(popOut) EXCEPT
                          !.population = Some(Val(elect).population),
                          !.population_year = Some(Val(elect).year),
                          !.notes = Some(Note("election-site"))])
                    /\ popPc' = "returned"
               ELSE /\ popOut' = popOut
                    /\ popPc' = "search"
    /\ UNCHANGED <<popPlaces, popIdx, popResults, popSearch, popFile,
                   popOthers>>

\* the search step wrapped in a retry: a failed request is issued again
PopSearchRetries ==
    /\ popPc = "search"
    /\ Len(popLog) < 6
    /\ \E resp \in SearchResponses :
         LET r == SearchResult(resp)
         IN /\ popLog' = Append(popLog, GetEvent("search",
                   IF r.raised THEN "error"
                   ELSE IF Truthy(r.value) THEN "entity" ELSE "none"))
            /\ IF r.raised
               THEN UNCHANGED <<popOut, popSearch, popPc>>
               ELSE IF ~Truthy(r.value)
               THEN /\ popOut' = Some([Val(popOut) EXCEPT
                          !.notes = Some(Note("no-wikidata-entity-found"))])
                    /\ popPc' = "returned"
                    /\ UNCHANGED popSearch
               ELSE IF Val(r.value).type # "dict"
               THEN /\ popPc' = "raised"
                    /\ UNCHANGED <<popOut, popSearch>>
               ELSE /\ popOut' = Some([Val(popOut) EXCEPT
                          !.wikidata_id = Val(r.value).id,
                          !.wikidata_label =
                              OrElse(Val(r.value).label, Val(r.value).title)])
                    /\ popSearch' = r.value
                    /\ popPc' = "claims"
    /\ UNCHANGED <<ELECTION_DATA, popPlaces, popIdx, popResults, popFile,
                   popOthers>>

\* get_population_for_place, lines 247-260: search_wikidata_entity inside
\* try/except, then search.get(...) outside any try
PopSearch ==
    /\ popPc = "search"
    /\ \E resp \in SearchResponses :
         LET r == SearchResult(resp)
         IN /\ popLog' = Append(popLog, GetEvent("search",
                   IF r.raised THEN "error"
                   ELSE IF Truthy(r.value) THEN "entity" ELSE "none"))
            /\ IF r.raised
               THEN /\ popOut' = Some([Val(popOut) EXCEPT
                          !.notes = Some(ErrorNote("search-error: ", r.e))])
                    /\ popPc' = "returned"
                    /\ UNCHANGED popSearch
               ELSE IF ~Truthy(r.value)
               THEN /\ popOut' = Some([Val(popOut) EXCEPT
                          !.notes = Some(Note("no-wikidata-entity-found"))])
                    /\ popPc' = "returned"
                    /\ UNCHANGED popSearch
               ELSE IF Val(r.value).type # "dict"
               THEN \* search.get("id"): AttributeError, not caught
                    /\ popPc' = "raised"
                    /\ UNCHANGED <<popOut, popSearch>>
               ELSE /\ popOut' = Some([Val(popOut) EXCEPT
                          !.wikidata_id = Val(r.value).id,
                          !.wikidata_label =
                              OrElse(Val(r.value).label, Val(r.value).title)])
                    /\ popSearch' = r.value
                    /\ popPc' = "claims"
    /\ UNCHANGED <<ELECTION_DATA, popPlaces, popIdx, popResults, popFile,
                   popOthers>>

\* get_population_for_place, lines 265-281: get_population_from_claims inside
\* try/except
PopClaims ==
    /\ popPc = "claims"
    /\ \E resp \in ClaimsResponses :
         LET r == IF resp.kind = "error"
                  THEN [raised |-> TRUE, value |-> None]
                  ELSE PopulationFromClaims(resp.claims)
             e == IF resp.kind = "error" THEN resp.e ELSE "OverflowError"
         IN /\ popLog' = Append(popLog, GetEvent("claims", resp.kind))
            /\ popOut' = Some(
                 IF r.raised
                 THEN [Val(popOut) EXCEPT !.notes = Some(ErrorNote("claims-error: ", e))]
                 ELSE IF IsNone(r.value)
                 THEN [Val(popOut) EXCEPT !.notes = Some(Note("no-population-found"))]
                 ELSE [Val(popOut) EXCEPT
                          !.population = Val(r.value).population,
                          !.population_year = Val(r.value).year,
                          !.notes = IF IsNone(Val(r.value).population)
                                    THEN Some(Note("population-parsing-failed"))
                                    ELSE Some(Note("wikidata"))])
            /\ popPc' = "returned"
    /\ UNCHANGED <<ELECTION_DATA, popPlaces, popIdx, popResults, popSearch,
                   popFile, popOthers>>

\* process_excel, line 308: results.append(res)
PopAppend ==
    /\ popPc = "returned"
    /\ popResults' = Append(popResults, Val(popOut))
    /\ popPc' = "loop"
    /\ UNCHANGED <<ELECTION_DATA, popPlaces, popIdx, popOut, popSearch, popLog,
                   popFile, popOthers>>

\* process_excel has no handler around get_population_for_place: an exception
\* ends the run before anything is written
PopUncaught ==
    /\ popPc = "raised"
    /\ popPc' = "aborted"
    /\ UNCHANGED <<ELECTION_DATA, popPlaces, popIdx, popResults, popOut,
                   popSearch, popLog, popFile, popOthers>>

\* res_df.drop(columns=["input_name"]) joined to the original columns
WithoutInputName(res) == [f \in DOMAIN res \ {"input_name"} |-> res[f]]

OutputRows(places, results) ==
    [i \in 1..Len(places) |-> [cell |-> places[i], result |-> WithoutInputName(results[i])]]

\* process_excel, lines 310-316: build res_df, join, write the workbook.
\* With no result at all res_df has no columns and the drop raises KeyError.
PopWrite ==
    /\ popPc = "loop"
    /\ popIdx = Len(popPlaces)
    /\ IF popResults = <<>>
       THEN /\ popPc' = "aborted"
            /\ UNCHANGED popFile
       ELSE /\ popFile' = Some(OutputRows(popPlaces, popResults))
            /\ popPc' = "done"
    /\ UNCHANGED <<ELECTION_DATA, popPlaces, popIdx, popResults, popOut,
                   popSearch, popLog, popOthers>>

PopNext ==
    \/ PopEmptyInput
    \/ PopCall
    \/ PopElection
    \/ PopSearch
    \/ PopClaims
    \/ PopAppend
    \/ PopUncaught
    \/ PopWrite

SpecPop == PopInit /\ [][PopNext]_vars


\* notes of a record returned by get_population_for_place
PopNoteKinds ==
    {"election-site", "search-error: ", "no-wikidata-entity-found",
     "claims-error: ", "no-population-found", "population-parsing-failed",
     "wikidata"}

GetsOf(log, ep) == {i \in 1..Len(log) : log[i].ev = "GET" /\ log[i].ep = ep}
ElectsOf(log) == {i \in 1..Len(log) : log[i].ev = "elect"}

\* C3 (as claimed): get_population_for_place never raises, and the record it
\* returns has one of the seven notes, with population non-null exactly for
\* 'election-site' and 'wikidata'.
C3_NeverRaises ==
    /\ popPc # "raised"
    /\ popPc = "returned" =>
         /\ ~IsNone(Val(popOut).notes)
         /\ NoteKind(Val(Val(popOut).notes)) \in PopNoteKinds
         /\ ~IsNone(Val(popOut).population)
              <=> NoteKind(Val(Val(popOut).notes)) \in {"election-site", "wikidata"}

C6_NoRetry ==
    /\ \A ep \in {"election", "search", "claims"} : Cardinality(GetsOf(popLog, ep)) <= 1
    /\ \A i \in GetsOf(popLog, "claims") :
         \E j \in GetsOf(popLog, "search") : j < i /\ popLog[j].result = "entity"
    /\ \A i \in GetsOf(popLog, "search") \cup GetsOf(popLog, "election") :
         popLog[i].result = "error" =>
            \A j \in 1..Len(popLog) :
               j > i => ~(popLog[j].ev = "GET" /\ popLog[j].ep = popLog[i].ep)

\* a call that has returned after its election request and its search
\* request both failed
C6_Witness ==
    /\ popPc = "returned"
    /\ popLog = <<GetEvent("election", "error"), ElectEvent("none"),
                  GetEvent("search", "error")>>

\* C7 (as claimed), population agent: a run over a sheet with at least one
\* row is never aborted by a lookup, and it writes one result row per input
\* row, in input order, beside the unchanged input cell.
C7_PopRunCompletes ==
    popPlaces # <<>> =>
        /\ popPc \notin {"raised", "aborted"}
        /\ popPc = "done" =>
             /\ Len(Val(popFile)) = Len(popPlaces)
             /\ \A i \in 1..Len(popPlaces) :
                  /\ Val(popFile)[i].cell = popPlaces[i]
                  /\ Val(popFile)[i].result = WithoutInputName(popResults[i])
                  /\ popResults[i].input_name = popPlaces[i]


\* the part of C3 that does not depend on the uncaught exception
PopReturnedRecordWellFormed ==
    popPc = "returned" =>
         /\ ~IsNone(Val(popOut).notes)
         /\ NoteKind(Val(Val(popOut).notes)) \in PopNoteKinds
         /\ ~IsNone(Val(popOut).population)
              <=> NoteKind(Val(Val(popOut).notes)) \in {"election-site", "wikidata"}

(*---------------- get_population_from_claims as a function ---------------*)

MaxClaims == 3

ClaimKinds ==
    {Claim(FALSE, <<"absent">>, <<"absent">>)}
      \cup {Claim(TRUE, a, t) :
              a \in {<<"num", 1000>>, <<"num", 1200>>, <<"bad">>, <<"inf">>},
              t \in {<<"absent">>, <<"time", 2001>>, <<"time", 2011>>, <<"bad">>}}

ClaimLists == UNION {[1..n -> ClaimKinds] : n \in 0..MaxClaims}

ClaimsInit ==
    /\ p1082 \in ClaimLists
    /\ claimsPc = "called"
    /\ claimsResult = None
    /\ RiskIdle /\ PopIdle /\ LitIdle /\ ApiIdle /\ ScriptsIdle

\* get_population_from_claims returns
ClaimsReturn ==
    /\ claimsPc = "called"
    /\ ~PopulationFromClaims(p1082).raised
    /\ claimsResult' = PopulationFromClaims(p1082).value
    /\ claimsPc' = "returned"
    /\ UNCHANGED <<p1082, claimsOthers>>

\* get_population_from_claims raises (to the try/except of its caller)
ClaimsRaise ==
    /\ claimsPc = "called"
    /\ PopulationFromClaims(p1082).raised
    /\ claimsPc' = "raised"
    /\ UNCHANGED <<p1082, claimsResult, claimsOthers>>

ClaimsNext ==
    \/ ClaimsReturn
    \/ ClaimsRaise

SpecClaims == ClaimsInit /\ [][ClaimsNext]_vars

\* the claims with a datavalue, and those of them with a point-in-time year
WithDatavalue(claims) == {i \in 1..Len(claims) : claims[i].dv}
WithYear(claims) ==
    {i \in WithDatavalue(claims) : claims[i].time[1] = "time"}

\* the claim the description picks: the most recent year, earliest in the
\* list on ties; without any year the first claim with a datavalue
DescribedChoice(claims) ==
    IF WithYear(claims) # {}
    THEN CHOOSE i \in WithYear(claims) :
           /\ \A j \in WithYear(claims) : claims[j].time[2] <= claims[i].time[2]
           /\ \A j \in WithYear(claims) :
                claims[j].time[2] = claims[i].time[2] => i <= j
    ELSE CHOOSE i \in WithDatavalue(claims) : \A j \in WithDatavalue(claims) : i <= j

\* C8: when get_population_from_claims returns, it returns None exactly when
\* no claim has a datavalue; otherwise the population is the amount of the
\* described choice (null when that claim has no readable amount) and the
\* year is that claim's point-in-time year (null when it has none).
C8_ChoosesLatestClaim ==
    claimsPc = "returned" =>
        IF WithDatavalue(p1082) = {}
        THEN IsNone(claimsResult)
        ELSE LET c == p1082[DescribedChoice(p1082)]
             IN /\ ~IsNone(claimsResult)
                /\ Val(claimsResult).population =
                     (IF c.amount[1] = "num" THEN Some(c.amount[2]) ELSE None)
                /\ Val(claimsResult).year =
                     (IF c.time[1] = "time" THEN Some(c.time[2]) ELSE None)

\* two claims of the same latest year after an undated one: the earlier of
\* the two is returned
C8_Witness ==
    /\ claimsPc = "returned"
    /\ p1082 = <<Claim(TRUE, <<"bad">>, <<"absent">>),
                 Claim(TRUE, <<"num", 1000>>, <<"time", 2011>>),
                 Claim(TRUE, <<"num", 1200>>, <<"time", 2011>>)>>
    /\ claimsResult = Some([population |-> Some(1000), year |-> Some(2011)])


(***************************************************************************)
(*                    LITERACY AGENT: literacy_agent.py                    *)
(*                                                                         *)
(* A text is a sequence of tokens: <<"word", w>>, <<"pct", n>> (a number   *)
(* followed by %), <<"year", y>> (four digits) or <<"pyear", y>> (four     *)
(* digits in parentheses).                                                 *)
(***************************************************************************)

Word(w) == <<"word", w>>
Pct(n) == <<"pct", n>>
Year(y) == <<"year", y>>
PYear(y) == <<"pyear", y>>

\* the first token of a text with one of the kinds, or None
FirstOf(text, kinds) ==
    LET hits == {i \in 1..Len(text) : text[i][1] \in kinds}
    IN IF hits = {} THEN None
       ELSE Some(text[CHOOSE i \in hits : \A j \in hits : i <= j][2])

\* extract_percentage: the first percentage of the text
extract_percentage(text) == FirstOf(text, {"pct"})

\* str.lower of the words used here
LowerWord(w) ==
    CASE w = "Literacy" -> "literacy"
      [] w = "Literates" -> "literates"
      [] w = "Literate" -> "literate"
      [] OTHER -> w

\* needle in text.lower(), for the words used here
TextHas(text, needle) ==
    \E i \in 1..Len(text) :
        /\ text[i][1] = "word"
        /\ CASE needle = "literacy" -> LowerWord(text[i][2]) \in {"literacy", "illiteracy"}
             [] needle = "literates" -> LowerWord(text[i][2]) \in {"literates"}
             [] needle = "literate" ->
                  LowerWord(text[i][2]) \in {"literate", "literates", "illiterate"}
             [] OTHER -> FALSE

\* parse_infobox_for_literacy: the first row with a th and a td whose label
\* names literacy decides; its percentage may be None
RECURSIVE InfoboxRows(_)
InfoboxRows(rows) ==
    IF rows = <<>> THEN None
    ELSE LET tr == Head(rows)
         IN IF ~tr.th \/ ~tr.td THEN InfoboxRows(Tail(rows))
            ELSE IF TextHas(tr.label, "literacy") \/ TextHas(tr.label, "literates")
                 THEN Some([literacy |-> extract_percentage(tr.text),
                            year |-> FirstOf(tr.text, {"pyear"}),
                            source |-> "wikipedia-infobox"])
                 ELSE InfoboxRows(Tail(rows))

\* try: parse_infobox_for_literacy(soup) except: None
parse_infobox_for_literacy(page) ==
    IF page.infobox.kind # "table" THEN None ELSE InfoboxRows(page.infobox.rows)

\* parse_body_for_literacy: the first p/li that mentions literacy and holds
\* a percentage
RECURSIVE BodyElements(_)
BodyElements(elems) ==
    IF elems = <<>> THEN None
    ELSE LET txt == Head(elems)
         IN IF (TextHas(txt, "literacy") \/ TextHas(txt, "literate"))
               /\ ~IsNone(extract_percentage(txt))
            THEN Some([literacy |-> extract_percentage(txt),
                       year |-> FirstOf(txt, {"year", "pyear"}),
                       source |-> "wikipedia-body"])
            ELSE BodyElements(Tail(elems))

\* try: parse_body_for_literacy(soup) except: None
parse_body_for_literacy(page) ==
    IF page.bodyRaises THEN None ELSE BodyElements(page.body)

InfoRow(th, td, label, text) == [th |-> th, td |-> td, label |-> label, text |-> text]
Infobox(rows) == [kind |-> "table", rows |-> rows]
NoInfobox == [kind |-> "absent", rows |-> <<>>]
InfoboxRaises == [kind |-> "raises", rows |-> <<>>]

\* Pages Wikipedia may serve.
WikiPages ==
    { \* literacy in the infobox and in the body
      [infobox |-> Infobox(<<InfoRow(TRUE, TRUE, <<Word("Population")>>, <<Word("n")>>),
                             InfoRow(TRUE, TRUE, <<Word("Literacy")>>,
                                     <<Pct(74), PYear(2011)>>)>>),
       body |-> << <<Word("literacy"), Pct(80), Year(2001)>> >>,
       bodyRaises |-> FALSE],
      \* an infobox literacy row without a percentage; the body has one
      [infobox |-> Infobox(<<InfoRow(TRUE, FALSE, <<Word("Literacy")>>, <<Pct(10)>>),
                             InfoRow(TRUE, TRUE, <<Word("Literates")>>, <<Word("n")>>),
                             InfoRow(TRUE, TRUE, <<Word("Literacy")>>, <<Pct(55)>>)>>),
       body |-> << <<Word("area"), Pct(12)>>,
                   <<Word("Literate"), Word("n")>>,
                   <<Word("illiteracy"), Pct(80), Year(2001)>> >>,
       bodyRaises |-> FALSE],
      \* no infobox; the body has a percentage
      [infobox |-> NoInfobox,
       body |-> << <<Word("literate"), Pct(65)>> >>,
       bodyRaises |-> FALSE],
      \* the infobox parser raises; the body has a percentage
      [infobox |-> InfoboxRaises,
       body |-> << <<Word("literacy"), PYear(2011), Pct(0)>> >>,
       bodyRaises |-> FALSE],
      \* literacy nowhere
      [infobox |-> Infobox(<<InfoRow(TRUE, TRUE, <<Word("Population")>>, <<Pct(3)>>)>>),
       body |-> << <<Word("area"), Pct(12)>> >>,
       bodyRaises |-> FALSE],
      \* both parsers raise
      [infobox |-> InfoboxRaises,
       body |-> << <<Word("literacy"), Pct(70)>> >>,
       bodyRaises |-> TRUE] }

\* What the GET of the Wikipedia search API does; an entry of the result
\* list is a dict ("dict", with or without "title"), an empty dict or a
\* JSON string.
WikiSearchResponses ==
    { [kind |-> "error", e |-> "ConnectionError", items |-> <<>>],
      [kind |-> "error", e |-> "JSONDecodeError", items |-> <<>>],
      [kind |-> "json", e |-> "", items |-> <<>>],
      [kind |-> "json", e |-> "", items |-> <<[type |-> "dict", title |-> Some("Ab")]>>],
      [kind |-> "json", e |-> "", items |-> <<[type |-> "dict", title |-> None]>>],
      [kind |-> "json", e |-> "", items |-> <<[type |-> "emptydict", title |-> None]>>],
      [kind |-> "json", e |-> "", items |-> <<[type |-> "str", title |-> None]>>] }

\* wiki_search: raises, or returns None or items[0]
WikiSearchResult(resp) ==
    IF resp.kind = "error" THEN [raised |-> TRUE, e |-> resp.e, value |-> None]
    ELSE IF resp.items = <<>> THEN [raised |-> FALSE, e |-> "", value |-> None]
    ELSE [raised |-> FALSE, e |-> "", value |-> Some(resp.items[1])]

\* What the GET of the page does: an exception of requests.get, a status
\* other than 200, an empty 200 body, or a page.
WikiPageResponses ==
    { [kind |-> "error", e |-> "ConnectionError", page |-> None],
      [kind |-> "error", e |-> "Timeout", page |-> None],
      [kind |-> "status", e |-> "", page |-> None],
      [kind |-> "empty", e |-> "", page |-> None] }
      \cup {[kind |-> "page", e |-> "", page |-> Some(pg)] : pg \in WikiPages}

LitPlaceNames == { <<"A", "b">>, <<"x">>, <<" ">> }

LitPlaceLists == UNION {[1..n -> LitPlaceNames] : n \in 0..MaxPlaces}

\* out = {"input_name": place, "wiki_title": None, ...}
NewLitOut(place) ==
    [input_name |-> place, wiki_title |-> None, literacy |-> None,
     literacy_year |-> None, notes |-> None]

RaiseEvent(e) == [ev |-> "raise", ep |-> "", result |-> e]

LitInit ==
    /\ litPlaces \in LitPlaceLists
    /\ litIdx = 0
    /\ litResults = <<>>
    /\ litPc = "loop"
    /\ litOut = None
    /\ litSearch = None
    /\ litLog = <<>>
    /\ litPage = None
    /\ litFile = None
    /\ RiskIdle /\ PopIdle /\ ClaimsIdle /\ ApiIdle /\ ScriptsIdle

\* process_excel: a blank cell gets an "empty-input" row without any lookup
LitEmptyInput ==
    /\ litPc = "loop"
    /\ litIdx < Len(litPlaces)
    /\ Strip(litPlaces[litIdx + 1]) = <<>>
    /\ litIdx' = litIdx + 1
    /\ litResults' = Append(litResults,
           [NewLitOut(litPlaces[litIdx + 1]) EXCEPT !.notes = Some(Note("empty-input"))])
    /\ UNCHANGED <<litPlaces, litPc, litOut, litSearch, litLog, litPage, litFile,
                   litOthers>>

\* process_excel calls get_literacy_for_place(place) inside try/except
LitCall ==
    /\ litPc = "loop"
    /\ litIdx < Len(litPlaces)
    /\ Strip(litPlaces[litIdx + 1]) # <<>>
    /\ litIdx' = litIdx + 1
    /\ litOut' = Some(NewLitOut(litPlaces[litIdx + 1]))
    /\ litSearch' = None
    /\ litLog' = <<>>
    /\ litPage' = None
    /\ litPc' = "search"
    /\ UNCHANGED <<litPlaces, litResults, litFile, litOthers>>

\* get_literacy_for_place, lines 108-119: wiki_search inside try/except,
\* then search.get("title") outside any try
LitSearch ==
    /\ litPc = "search"
    /\ \E resp \in WikiSearchResponses :
         LET r == WikiSearchResult(resp)
         IN /\ IF r.raised
               THEN /\ litOut' = Some([Val(litOut) EXCEPT
                          !.notes = Some(ErrorNote("search-error: ", r.e))])
                    /\ litPc' = "returned"
                    /\ litLog' = Append(litLog, GetEvent("search", "error"))
                    /\ UNCHANGED litSearch
               ELSE IF ~Truthy(r.value)
               THEN /\ litOut' = Some([Val(litOut) EXCEPT
                          !.notes = Some(Note("no-wikipedia-search-result"))])
                    /\ litPc' = "returned"
                    /\ litLog' = Append(litLog, GetEvent("search", "none"))
                    /\ UNCHANGED litSearch
               ELSE IF Val(r.value).type # "dict"
               THEN \* search.get("title"): AttributeError, not caught here
                    /\ litPc' = "raised"
                    /\ litLog' = litLog \o <<GetEvent("search", "entity"),
                                             RaiseEvent("AttributeError")>>
                    /\ UNCHANGED <<litOut, litSearch>>
               ELSE /\ litOut' = Some([Val(litOut) EXCEPT
                          !.wiki_title = Val(r.value).title])
                    /\ litSearch' = r.value
                    /\ litPc' = "fetch"
                    /\ litLog' = Append(litLog, GetEvent("search", "entity"))
    /\ UNCHANGED <<litPlaces, litIdx, litResults, litPage, litFile, litOthers>>

\* the fetch step with the request wrapped in try/except returning None
LitFetchGuarded ==
    /\ litPc = "fetch"
    /\ \E resp \in WikiPageResponses :
         IF IsNone(Val(litSearch).title)
         THEN /\ litPc' = "raised"
              /\ litLog' = Append(litLog, RaiseEvent("AttributeError"))
              /\ UNCHANGED <<litOut, litPage>>
         ELSE IF resp.kind \in {"error", "status", "empty"}
         THEN /\ litOut' = Some([Val(litOut) EXCEPT
                    !.notes = Some(Note("failed-fetch-page"))])
              /\ litPc' = "returned"
              /\ litLog' = Append(litLog, GetEvent("page", resp.kind))
              /\ UNCHANGED litPage
         ELSE /\ litPage' = resp.page
              /\ litPc' = "parse"
              /\ litLog' = Append(litLog, GetEvent("page", resp.kind))
              /\ UNCHANGED litOut
    /\ UNCHANGED <<litPlaces, litIdx, litResults, litSearch, litFile, litOthers>>

\* get_literacy_for_place, lines 122-126: fetch_wiki_html(title), outside any
\* try. page_title.replace raises on a missing title; requests.get raises on
\* a connection error or timeout; a status other than 200 or an empty body is
\* "failed-fetch-page".
LitFetch ==
    /\ litPc = "fetch"
    /\ \E resp \in WikiPageResponses :
         IF IsNone(Val(litSearch).title)
         THEN /\ litPc' = "raised"
              /\ litLog' = Append(litLog, RaiseEvent("AttributeError"))
              /\ UNCHANGED <<litOut, litPage>>
         ELSE IF resp.kind = "error"
         THEN /\ litPc' = "raised"
              /\ litLog' = litLog \o <<GetEvent("page", "error"), RaiseEvent(resp.e)>>
              /\ UNCHANGED <<litOut, litPage>>
         ELSE IF resp.kind \in {"status", "empty"}
         THEN /\ litOut' = Some([Val(litOut) EXCEPT
                    !.notes = Some(Note("failed-fetch-page"))])
              /\ litPc' = "returned"
              /\ litLog' = Append(litLog, GetEvent("page", resp.kind))
              /\ UNCHANGED litPage
         ELSE /\ litPage' = resp.page
              /\ litPc' = "parse"
              /\ litLog' = Append(litLog, GetEvent("page", resp.kind))
              /\ UNCHANGED litOut
    /\ UNCHANGED <<litPlaces, litIdx, litResults, litSearch, litFile, litOthers>>

\* the parse step with the two sources tried in the other order
LitParseBodyFirst ==
    /\ litPc = "parse"
    /\ LET info == parse_infobox_for_literacy(Val(litPage))
           body == parse_body_for_literacy(Val(litPage))
           Take(r) == [Val(litOut) EXCEPT
                          !.literacy = Val(r).literacy,
                          !.literacy_year = Val(r).year,
                          !.notes = Some(Note(Val(r).source))]
       IN litOut' = Some(
            IF ~IsNone(body) /\ ~IsNone(Val(body).literacy) THEN Take(body)
            ELSE IF ~IsNone(info) /\ ~IsNone(Val(info).literacy) THEN Take(info)
            ELSE [Val(litOut) EXCEPT !.notes = Some(Note("no-literacy-found"))])
    /\ litPc' = "returned"
    /\ UNCHANGED <<litPlaces, litIdx, litResults, litSearch, litLog, litPage,
                   litFile, litOthers>>

\* get_literacy_for_place, lines 128-155: the infobox first, the body as the
\* fallback
LitParse ==
    /\ litPc = "parse"
    /\ LET info == parse_infobox_for_literacy(Val(litPage))
           body == parse_body_for_literacy(Val(litPage))
           Take(r) == [Val(litOut) EXCEPT
                          !.literacy = Val(r).literacy,
                          !.literacy_year = Val(r).year,
                          !.notes = Some(Note(Val(r).source))]
       IN litOut' = Some(
            IF ~IsNone(info) /\ ~IsNone(Val(info).literacy) THEN Take(info)
            ELSE IF ~IsNone(body) /\ ~IsNone(Val(body).literacy) THEN Take(body)
            ELSE [Val(litOut) EXCEPT !.notes = Some(Note("no-literacy-found"))])
    /\ litPc' = "returned"
    /\ UNCHANGED <<litPlaces, litIdx, litResults, litSearch, litLog, litPage,
                   litFile, litOthers>>

\* process_excel, lines 177 and 180: res = get_literacy_for_place(place);
\* results.append(res)
LitAppend ==
    /\ litPc = "returned"
    /\ litResults' = Append(litResults, Val(litOut))
    /\ litPc' = "loop"
    /\ UNCHANGED <<litPlaces, litIdx, litOut, litSearch, litLog, litPage, litFile,
                   litOthers>>

\* process_excel, lines 178-180: except Exception as e: an "error: ..." row
LitCatch ==
    /\ litPc = "raised"
    /\ litResults' = Append(litResults,
           [NewLitOut(litPlaces[litIdx]) EXCEPT
               !.notes = Some(ErrorNote("error: ", litLog[Len(litLog)].result))])
    /\ litPc' = "loop"
    /\ UNCHANGED <<litPlaces, litIdx, litOut, litSearch, litLog, litPage, litFile,
                   litOthers>>

\* process_excel, lines 182-185: build res_df, join, write the workbook.
\* With no result at all res_df has no columns and the drop raises KeyError.
LitWrite ==
    /\ litPc = "loop"
    /\ litIdx = Len(litPlaces)
    /\ IF litResults = <<>>
       THEN /\ litPc' = "aborted"
            /\ UNCHANGED litFile
       ELSE /\ litFile' = Some(OutputRows(litPlaces, litResults))
            /\ litPc' = "done"
    /\ UNCHANGED <<litPlaces, litIdx, litResults, litOut, litSearch, litLog,
                   litPage, litOthers>>

LitNext ==
    \/ LitEmptyInput
    \/ LitCall
    \/ LitSearch
    \/ LitFetch
    \/ LitParse
    \/ LitAppend
    \/ LitCatch
    \/ LitWrite

SpecLit == LitInit /\ [][LitNext]_vars


LitLast == litLog[Len(litLog)]
LitLogHas(event) == \E i \in 1..Len(litLog) : litLog[i] = event
LitNotes == Val(litOut).notes

\* the row process_excel recorded for the place it looked up last
LitLastCallRow == litResults[litIdx]

(* C4, as stated: get_literacy_for_place never raises; a failure of the    *)
(* network while searching or while fetching the page, a connection error  *)
(* or timeout in fetch_wiki_html included, is reported through notes.      *)
C4_NetworkFailureNeverRaises ==
    /\ litPc = "raised" =>
         ~LitLogHas(GetEvent("search", "error")) /\ ~LitLogHas(GetEvent("page", "error"))
    /\ (litPc = "returned" /\ LitLogHas(GetEvent("page", "error"))) =>
         LitNotes = Some(Note("failed-fetch-page"))

(* C4, amended: get_literacy_for_place catches every failure of the        *)
(* Wikipedia search and returns notes 'search-error: ...', and returns     *)
(* 'failed-fetch-page' for a page response whose status is not 200 or      *)
(* whose body is empty. An exception raised after the search - a           *)
(* connection error or timeout in fetch_wiki_html, or a search hit that is *)
(* not a dict with a title - leaves get_literacy_for_place as an           *)
(* exception; process_excel catches it, records the row with notes         *)
(* 'error: ...' and goes on.                                               *)
C4_FailuresReported ==
    /\ LitLogHas(GetEvent("search", "error")) =>
         /\ litPc # "raised"
         /\ litPc = "returned" => LitNotes = Some(ErrorNote("search-error: ", "ConnectionError"))
                               \/ LitNotes = Some(ErrorNote("search-error: ", "JSONDecodeError"))
    /\ (LitLogHas(GetEvent("page", "status")) \/ LitLogHas(GetEvent("page", "empty"))) =>
         /\ litPc # "raised"
         /\ litPc = "returned" => LitNotes = Some(Note("failed-fetch-page"))
    /\ LitLogHas(GetEvent("page", "error")) =>
         /\ LitLast.ev = "raise"
         /\ litPc \in {"raised", "loop", "done"}
    /\ (litLog # <<>> /\ LitLast.ev = "raise") =>
         /\ litPc \in {"raised", "loop", "done"}
         /\ (litPc \in {"loop", "done"} /\ Strip(litPlaces[litIdx]) # <<>>) =>
              /\ Len(litResults) = litIdx
              /\ LitLastCallRow =
                   [NewLitOut(litPlaces[litIdx]) EXCEPT
                       !.notes = Some(ErrorNote("error: ", LitLast.result))]
    /\ litPc = "raised" => LitLast.ev = "raise"

\* process_excel has recorded an "error: Timeout" row for a place whose
\* page fetch timed out
C4_Witness ==
    /\ litPc = "loop"
    /\ litIdx > 0
    /\ LitLogHas(GetEvent("page", "error"))
    /\ Len(litResults) = litIdx
    /\ LitLastCallRow.notes = Some(ErrorNote("error: ", "Timeout"))

InfoboxHasLiteracy(page) ==
    /\ ~IsNone(parse_infobox_for_literacy(page))
    /\ ~IsNone(Val(parse_infobox_for_literacy(page)).literacy)

BodyHasLiteracy(page) ==
    /\ ~IsNone(parse_body_for_literacy(page))
    /\ ~IsNone(Val(parse_body_for_literacy(page)).literacy)

LiteracyFoundNotes == {Some(Note("wikipedia-infobox")), Some(Note("wikipedia-body"))}

(* C9: get_literacy_for_place takes the literacy rate from the infobox and *)
(* falls back to the body text only when the infobox yields no percentage; *)
(* notes names the part that produced the value. In every record literacy  *)
(* is non-null exactly when notes is 'wikipedia-infobox' or                *)
(* 'wikipedia-body'; a page with no percentage in either place gives       *)
(* 'no-literacy-found'.                                                    *)
C9_InfoboxThenBody ==
    /\ \A i \in 1..Len(litResults) :
         ~IsNone(litResults[i].literacy) <=> litResults[i].notes \in LiteracyFoundNotes
    /\ litPc = "returned" =>
         /\ ~IsNone(Val(litOut).literacy) <=> LitNotes \in LiteracyFoundNotes
         /\ IsNone(litPage) => IsNone(Val(litOut).literacy)
         /\ ~IsNone(litPage) =>
              LET page == Val(litPage)
                  info == Val(parse_infobox_for_literacy(page))
                  body == Val(parse_body_for_literacy(page))
              IN /\ InfoboxHasLiteracy(page) =>
                      /\ LitNotes = Some(Note("wikipedia-infobox"))
                      /\ Val(litOut).literacy = info.literacy
                      /\ Val(litOut).literacy_year = info.year
                 /\ (~InfoboxHasLiteracy(page) /\ BodyHasLiteracy(page)) =>
                      /\ LitNotes = Some(Note("wikipedia-body"))
                      /\ Val(litOut).literacy = body.literacy
                      /\ Val(litOut).literacy_year = body.year
                 /\ (~InfoboxHasLiteracy(page) /\ ~BodyHasLiteracy(page)) =>
                      /\ LitNotes = Some(Note("no-literacy-found"))
                      /\ IsNone(Val(litOut).literacy)

\* a page with a percentage in the infobox and another one in the body:
\* the infobox value was returned
C9_Witness ==
    /\ litPc = "returned"
    /\ ~IsNone(litPage)
    /\ InfoboxHasLiteracy(Val(litPage))
    /\ BodyHasLiteracy(Val(litPage))
    /\ LitNotes = Some(Note("wikipedia-infobox"))
    /\ Val(litOut).literacy = Some(74)

(***************************************************************************)
(*        BANKING INTELLIGENCE API: banking_intelligence_api.py            *)
(*                                                                         *)
(* JSON values are tagged tuples. Interest rates are in tenths of a        *)
(* percent (10.5 is 105).                                                  *)
(***************************************************************************)

Str(s) == <<"str", s>>
Num(n) == <<"num", n>>
JsonNull == <<"null">>
JsonList == <<"list">>

\* random.randint(a, b)
RandInt(a, b) == a..b

Months == 1..12

\* _calculate_risk_score for the draws base and seasonal in month
CalculateRiskScore(base, month, seasonal) ==
    LET base_score == IF month \in {6, 7, 8} THEN base + seasonal ELSE base
    IN Min2(100, Max2(0, base_score))

\* the values _calculate_risk_score can return
RiskScores ==
    {CalculateRiskScore(base, month, seasonal) :
        base \in RandInt(25, 45), month \in Months, seasonal \in RandInt(-5, 10)}

\* get_current_parameters(location): the fields the handlers read
CurrentParameters(location) ==
    {[location |-> location,
      validity_minutes |-> 15,
      overall_risk_score |-> score,
      drought_risk_level |-> drought,
      market_sentiment |-> sentiment] :
        score \in RiskScores,
        drought \in {"Low", "Medium", "High"},
        sentiment \in {"Bullish", "Bearish", "Neutral", "Volatile"}}

\* request_data.get(key, default): the default only for a missing key
GetOr(field, default) == IF IsNone(field) THEN default ELSE Val(field)

\* purpose_risk.get(loan_purpose, 10)
PurposeRisk(loan_purpose) ==
    IF loan_purpose[1] # "str" THEN 10
    ELSE CASE loan_purpose[2] = "Agriculture" -> 10
           [] loan_purpose[2] = "Business" -> 5
           [] loan_purpose[2] = "Personal" -> 15
           [] loan_purpose[2] = "Home" -> 0
           [] loan_purpose[2] = "Vehicle" -> 8
           [] OTHER -> 10

\* the decision with the two upper limits taken as inclusive
RecommendationInclusive(adjusted_risk) ==
    IF adjusted_risk <= 40
    THEN [recommendation |-> "APPROVE", interest_rate |-> 105,
          conditions |-> <<"Standard terms applicable">>]
    ELSE IF adjusted_risk <= 70
    THEN [recommendation |-> "CONDITIONAL_APPROVE", interest_rate |-> 120,
          conditions |-> <<"Additional collateral required", "Enhanced monitoring">>]
    ELSE [recommendation |-> "DEFER", interest_rate |-> 140,
          conditions |-> <<"High risk environment",
                           "Consider after risk factors improve">>]

\* get_lending_recommendation, lines 292-304
Recommendation(adjusted_risk) ==
    IF adjusted_risk < 40
    THEN [recommendation |-> "APPROVE", interest_rate |-> 105,
          conditions |-> <<"Standard terms applicable">>]
    ELSE IF adjusted_risk < 70
    THEN [recommendation |-> "CONDITIONAL_APPROVE", interest_rate |-> 120,
          conditions |-> <<"Additional collateral required", "Enhanced monitoring">>]
    ELSE [recommendation |-> "DEFER", interest_rate |-> 140,
          conditions |-> <<"High risk environment",
                           "Consider after risk factors improve">>]

\* JSON bodies of a POST: a dict with any of the three keys, or no dict
LendingRequests ==
    {[json |-> "dict", loan_amount |-> a, location |-> l, loan_purpose |-> p] :
        a \in {None, Some(Num(250000))},
        l \in {None, Some(Str("Madurai"))},
        p \in {None, Some(JsonNull), Some(JsonList), Some(Num(7))}
              \cup {Some(Str(x)) : x \in {"Agriculture", "Business", "Personal", "Home",
                                          "Vehicle", "Education"}}}
    \cup {[json |-> "none", loan_amount |-> None, location |-> None,
           loan_purpose |-> None]}

ApiInit ==
    /\ apiPc = "request"
    /\ apiRequest \in {Some(r) : r \in LendingRequests}
    /\ apiParams = None
    /\ apiResponse = None
    /\ RiskIdle /\ PopIdle /\ ClaimsIdle /\ LitIdle /\ ScriptsIdle

\* POST /api/lending-recommendation
LendingRecommendation ==
    /\ apiPc = "request"
    /\ LET request_data == Val(apiRequest)
           loan_amount == GetOr(request_data.loan_amount, Num(100000))
           borrower_location == GetOr(request_data.location, Str("Tamil Nadu"))
           loan_purpose == GetOr(request_data.loan_purpose, Str("Business"))
       IN IF request_data.json # "dict"
          THEN \* request_data.get on something that is no dict
               /\ apiPc' = "error"
               /\ UNCHANGED <<apiParams, apiResponse>>
          ELSE \E current_params \in CurrentParameters(borrower_location) :
                 /\ apiParams' = Some(current_params)
                 /\ IF loan_purpose = JsonList
                    THEN \* an unhashable key in purpose_risk.get
                         /\ apiPc' = "error"
                         /\ UNCHANGED apiResponse
                    ELSE LET base_risk == current_params.overall_risk_score
                             adjusted_risk == base_risk + PurposeRisk(loan_purpose)
                             rec == Recommendation(adjusted_risk)
                         IN /\ apiPc' = "responded"
                            /\ apiResponse' = Some(
                                 [loan_application |->
                                      [amount |-> loan_amount,
                                       purpose |-> loan_purpose,
                                       location |-> borrower_location],
                                  recommendation |-> rec.recommendation,
                                  risk_score |-> adjusted_risk,
                                  suggested_interest_rate |-> rec.interest_rate,
                                  conditions |-> rec.conditions,
                                  current_environment |->
                                      [overall_risk |-> current_params.overall_risk_score,
                                       climate_risk |-> current_params.drought_risk_level,
                                       economic_conditions |->
                                           current_params.market_sentiment]])
    /\ UNCHANGED <<apiRequest, apiOthers>>

ApiNext == LendingRecommendation

SpecApi == ApiInit /\ [][ApiNext]_vars

\* the adjustment the description gives for a purpose
DescribedAdjustment(purpose) ==
    IF purpose = Str("Agriculture") THEN 10
    ELSE IF purpose = Str("Business") THEN 5
    ELSE IF purpose = Str("Personal") THEN 15
    ELSE IF purpose = Str("Home") THEN 0
    ELSE IF purpose = Str("Vehicle") THEN 8
    ELSE 10

(* C10: in a response of POST /api/lending-recommendation risk_score is    *)
(* the overall risk score plus the purpose adjustment (Agriculture 10,     *)
(* Business 5, Personal 15, Home 0, Vehicle 8, anything else 10); the      *)
(* recommendation is APPROVE at 10.5 exactly when risk_score < 40,         *)
(* CONDITIONAL_APPROVE at 12.0 exactly when 40 <= risk_score < 70 and      *)
(* DEFER at 14.0 exactly when risk_score >= 70; missing fields default to  *)
(* loan_amount 100000, location 'Tamil Nadu', loan_purpose 'Business'.     *)
C10_LendingRecommendation ==
    apiPc = "responded" =>
        LET r == Val(apiResponse)
            req == Val(apiRequest)
        IN /\ r.risk_score = Val(apiParams).overall_risk_score
                               + DescribedAdjustment(r.loan_application.purpose)
           /\ r.current_environment.overall_risk = Val(apiParams).overall_risk_score
           /\ (r.recommendation = "APPROVE") <=> (r.risk_score < 40)
           /\ (r.recommendation = "CONDITIONAL_APPROVE")
                 <=> (40 <= r.risk_score /\ r.risk_score < 70)
           /\ (r.recommendation = "DEFER") <=> (r.risk_score >= 70)
           /\ (r.suggested_interest_rate = 105) <=> (r.recommendation = "APPROVE")
           /\ (r.suggested_interest_rate = 120) <=> (r.recommendation = "CONDITIONAL_APPROVE")
           /\ (r.suggested_interest_rate = 140) <=> (r.recommendation = "DEFER")
           /\ r.loan_application.amount =
                 (IF IsNone(req.loan_amount) THEN Num(100000) ELSE Val(req.loan_amount))
           /\ r.loan_application.location =
                 (IF IsNone(req.location) THEN Str("Tamil Nadu") ELSE Val(req.location))
           /\ r.loan_application.purpose =
                 (IF IsNone(req.loan_purpose) THEN Str("Business") ELSE Val(req.loan_purpose))
           /\ Val(apiParams).location = r.loan_application.location

\* an empty JSON object was answered from the defaults, at the boundary
\* risk_score 40
C10_Witness ==
    /\ apiPc = "responded"
    /\ IsNone(Val(apiRequest).loan_amount)
    /\ IsNone(Val(apiRequest).location)
    /\ IsNone(Val(apiRequest).loan_purpose)
    /\ Val(apiResponse).loan_application.purpose = Str("Business")
    /\ Val(apiResponse).risk_score = 40
    /\ Val(apiResponse).recommendation = "CONDITIONAL_APPROVE"


(***************************************************************************)
(*                          PIPELINE: main.py                              *)
(*                                                                         *)
(* pipeline = [pc, command, dirs, trace, result]: the position in main /   *)
(* run_full_pipeline, the command-line argument, the directories that      *)
(* exist, the calls made so far and the value run_full_pipeline returned.  *)
(* A step (generate_data_main, risk_assessment_main, visualization_main)   *)
(* finishes, raises an Exception, or raises something that is no Exception *)
(* (SystemExit, KeyboardInterrupt).                                        *)
(***************************************************************************)

PipelineDirectories == <<"data", "models", "results", "visualizations">>
PipelineSteps == <<"data", "models", "viz">>
StepOutcomes == {"ok", "Exception", "BaseException"}
Call(name, outcome) == [call |-> name, outcome |-> outcome]

PipelineInit ==
    /\ pipeline \in [pc : {"start"},
                     command : {"full", "data", "models", "viz", "dashboard"},
                     dirs : SUBSET {PipelineDirectories[i] : i \in 1..4},
                     trace : {<<>>},
                     result : {None}]
    /\ AgentsIdle
    /\ platform = Off /\ hierarchy = Off /\ borrower = Off
    /\ bucket = Off /\ lending = Off /\ params = Off

\* setup_directories, the first call of every command but "dashboard":
\* os.makedirs creates the directories in order and may raise on any of them
SetupDirectories ==
    /\ pipeline.pc = "start"
    /\ pipeline.command # "dashboard"
    /\ \E n \in 0..4 :
         pipeline' = [pipeline EXCEPT
             !.dirs = @ \cup {PipelineDirectories[i] : i \in 1..n},
             !.trace = Append(@, Call("setup_directories", IF n = 4 THEN "ok" ELSE "OSError")),
             !.pc = IF n < 4 THEN "raised"
                    ELSE IF pipeline.command = "full" THEN "data"
                    ELSE pipeline.command]
    /\ UNCHANGED pipelineOthers

\* the position after a step of run_full_pipeline that finished
AfterStep(step) ==
    CASE step = "data" -> "models"
      [] step = "models" -> "viz"
      [] step = "viz" -> "returned"

\* a step whose Exception is printed and the pipeline goes on
RunStepKeepsGoing ==
    /\ pipeline.pc \in {"data", "models", "viz"}
    /\ \E outcome \in StepOutcomes :
         LET step == pipeline.pc
             full == pipeline.command = "full"
         IN pipeline' = [pipeline EXCEPT
                !.trace = Append(@, Call(step, outcome)),
                !.pc = IF outcome = "BaseException" \/ (~full /\ outcome # "ok") THEN "raised"
                       ELSE IF full THEN AfterStep(step) ELSE "returned",
                !.result = IF full /\ outcome # "BaseException" /\ AfterStep(step) = "returned"
                           THEN Some(TRUE) ELSE None]
    /\ UNCHANGED pipelineOthers

\* one step: inside try/except Exception in run_full_pipeline (return False
\* on an Exception, return True after the last step), bare in the
\* single-step commands
RunStep ==
    /\ pipeline.pc \in {"data", "models", "viz"}
    /\ \E outcome \in StepOutcomes :
         LET step == pipeline.pc
             full == pipeline.command = "full"
         IN pipeline' = [pipeline EXCEPT
                !.trace = Append(@, Call(step, outcome)),
                !.pc = IF outcome = "BaseException" \/ (~full /\ outcome # "ok") THEN "raised"
                       ELSE IF full /\ outcome = "ok" THEN AfterStep(step)
                       ELSE "returned",
                !.result = IF full /\ outcome = "Exception" THEN Some(FALSE)
                           ELSE IF full /\ outcome = "ok" /\ AfterStep(step) = "returned"
                           THEN Some(TRUE) ELSE None]
    /\ UNCHANGED pipelineOthers

\* launch_dashboard: os.system, no directories
LaunchDashboard ==
    /\ pipeline.pc = "start"
    /\ pipeline.command = "dashboard"
    /\ pipeline' = [pipeline EXCEPT !.trace = Append(@, Call("streamlit", "ok")),
                                    !.pc = "returned"]
    /\ UNCHANGED pipelineOthers

PipelineNext == SetupDirectories \/ RunStep \/ LaunchDashboard

SpecPipeline == PipelineInit /\ [][PipelineNext]_vars

\* the steps started so far, in order
StepsStarted == [i \in 1..(Len(pipeline.trace) - 1) |-> pipeline.trace[i + 1]]

(* C11: run_full_pipeline calls setup_directories before any step, then    *)
(* data generation, risk assessment and visualization in that order; a     *)
(* step starts only after every earlier step finished without an           *)
(* exception; it returns True iff all three steps succeeded and returns    *)
(* False right after the first step that fails, starting no later step.    *)
C11_PipelineOrder ==
    (pipeline.command = "full" /\ pipeline.trace # <<>>) =>
        /\ pipeline.trace[1].call = "setup_directories"
        /\ Len(StepsStarted) <= 3
        /\ \A i \in 1..Len(StepsStarted) :
              /\ StepsStarted[i].call = PipelineSteps[i]
              /\ pipeline.trace[1].outcome = "ok"
              /\ i < Len(StepsStarted) => StepsStarted[i].outcome = "ok"
        /\ pipeline.result = Some(TRUE) <=>
              /\ pipeline.pc = "returned"
              /\ Len(StepsStarted) = 3
              /\ \A i \in 1..3 : StepsStarted[i].outcome = "ok"
        /\ pipeline.result = Some(FALSE) <=>
              /\ pipeline.pc = "returned"
              /\ StepsStarted # <<>>
              /\ StepsStarted[Len(StepsStarted)].outcome = "Exception"
        /\ (StepsStarted # <<>> /\ StepsStarted[Len(StepsStarted)].outcome = "Exception") =>
              pipeline.pc = "returned"
        /\ pipeline.pc = "returned" => ~IsNone(pipeline.result)

\* risk assessment failed after data generation: False, no visualization
C11_Witness ==
    /\ pipeline.command = "full"
    /\ pipeline.pc = "returned"
    /\ pipeline.result = Some(FALSE)
    /\ Len(pipeline.trace) = 3
    /\ pipeline.trace[3] = Call("models", "Exception")


(***************************************************************************)
(*                          SETUP: setup.py                                *)
(*                                                                         *)
(* platform = [pc, python, answer, dirs, trace, result]: the position in   *)
(* setup_platform, sys.version_info, what the user will type (None: end    *)
(* of input), the directories created, the run_command / os.system calls   *)
(* made so far, and the value returned.                                    *)
(***************************************************************************)

SetupDirectoryNames == {"data", "results", "visualizations", "models"}

SetupPackages == <<"pandas", "numpy", "scikit-learn", "matplotlib", "seaborn",
                   "plotly", "streamlit", "folium", "faker">>

\* tuple comparison a < b of Python
RECURSIVE TupleLess(_, _)
TupleLess(a, b) ==
    IF b = <<>> THEN FALSE
    ELSE IF a = <<>> THEN TRUE
    ELSE IF Head(a) # Head(b) THEN Head(a) < Head(b)
    ELSE TupleLess(Tail(a), Tail(b))

\* what subprocess.run does: a return code, or an exception
CommandOutcomes ==
    {[raised |-> FALSE, returncode |-> 0],
     [raised |-> FALSE, returncode |-> 1],
     [raised |-> TRUE, returncode |-> 0]}

\* run_command: True iff subprocess.run returned with return code 0
run_command(outcome) == ~outcome.raised /\ outcome.returncode = 0

Ran(command, outcome) ==
    [command |-> command, outcome |-> outcome, success |-> run_command(outcome)]

PlatformInit ==
    /\ platform \in [pc : {"start"},
                     python : {<<2, 7, 18>>, <<3, 7, 9>>, <<3, 8, 0>>, <<3, 12, 1>>},
                     answer : {None, Some(<<"y">>), Some(<<" ", "Y", "E", "S", " ">>),
                               Some(<<"n">>), Some(<<"y", "e", "s", "!">>), Some(<<>>)},
                     dirs : {{}},
                     trace : {<<>>},
                     result : {None}]
    /\ AgentsIdle
    /\ pipeline = Off /\ hierarchy = Off /\ borrower = Off
    /\ bucket = Off /\ lending = Off /\ params = Off

\* lines 30-42: the version check, then os.makedirs for the four directories
\* (which may raise)
CheckAndCreate ==
    /\ platform.pc = "start"
    /\ IF TupleLess(platform.python, <<3, 8>>)
       THEN platform' = [platform EXCEPT !.pc = "returned", !.result = Some(FALSE)]
       ELSE \E done \in SUBSET SetupDirectoryNames :
              platform' = [platform EXCEPT
                  !.dirs = done,
                  !.pc = IF done = SetupDirectoryNames THEN "install" ELSE "raised"]
    /\ UNCHANGED platformOthers

\* the package loop with a failed install ending the setup
InstallPackageStopsOnFailure ==
    /\ platform.pc = "install"
    /\ \E outcome \in CommandOutcomes :
         LET package == SetupPackages[Len(platform.trace) + 1]
         IN platform' = [platform EXCEPT
                !.trace = Append(@, Ran(<<"pip install", package>>, outcome)),
                !.pc = IF ~run_command(outcome) THEN "returned"
                       ELSE IF Len(platform.trace) + 1 = Len(SetupPackages)
                       THEN "sample" ELSE "install"]
    /\ UNCHANGED platformOthers

\* lines 51-54: one iteration of the package loop
InstallPackage ==
    /\ platform.pc = "install"
    /\ \E outcome \in CommandOutcomes :
         LET package == SetupPackages[Len(platform.trace) + 1]
         IN platform' = [platform EXCEPT
                !.trace = Append(@, Ran(<<"pip install", package>>, outcome)),
                !.pc = IF Len(platform.trace) + 1 = Len(SetupPackages)
                       THEN "sample" ELSE "install"]
    /\ UNCHANGED platformOthers

\* lines 58-75: the sample data, then on success the question and the launch
GenerateSampleData ==
    /\ platform.pc = "sample"
    /\ \E outcome \in CommandOutcomes :
         LET ran == Ran(<<"python", "generate_sample_data.py">>, outcome)
             launch == /\ ~IsNone(platform.answer)
                       /\ Strip(Lower(Val(platform.answer))) \in {<<"y">>, <<"y", "e", "s">>}
         IN platform' = [platform EXCEPT
                !.trace = IF ran.success /\ launch
                          THEN @ \o <<ran, [command |-> <<"streamlit run", "simple_dashboard.py">>,
                                            outcome |-> [raised |-> FALSE, returncode |-> 0],
                                            success |-> TRUE]>>
                          ELSE Append(@, ran),
                !.pc = IF ran.success /\ IsNone(platform.answer) THEN "raised"
                       ELSE "returned"]
    /\ UNCHANGED platformOthers

PlatformNext == CheckAndCreate \/ InstallPackage \/ GenerateSampleData

SpecPlatform == PlatformInit /\ [][PlatformNext]_vars

\* the commands setup_platform runs, in order
SetupCommands ==
    [i \in 1..Len(SetupPackages) |-> <<"pip install", SetupPackages[i]>>]
        \o << <<"python", "generate_sample_data.py">>,
              <<"streamlit run", "simple_dashboard.py">> >>

(* C12: setup_platform returns False before creating a directory or        *)
(* running a command when Python is older than 3.8; otherwise it creates   *)
(* the directories, then attempts every listed package in order (a failed  *)
(* install never stops the sequence), then generates the sample data; the  *)
(* dashboard is launched only if that succeeded and the user answered 'y'  *)
(* or 'yes'. run_command never raises and returns True iff the return code *)
(* is 0.                                                                   *)
C12_SetupOrder ==
    LET t == platform.trace
        n == Len(SetupPackages)
    IN /\ (platform.python[1] < 3 \/ (platform.python[1] = 3 /\ platform.python[2] < 8)) =>
            /\ t = <<>> /\ platform.dirs = {}
            /\ platform.pc \in {"start", "returned"}
            /\ platform.pc = "returned" => platform.result = Some(FALSE)
       /\ t # <<>> => platform.dirs = SetupDirectoryNames
       /\ Len(t) <= n + 2
       /\ \A i \in 1..Len(t) :
            /\ t[i].command = SetupCommands[i]
            /\ t[i].success <=> (~t[i].outcome.raised /\ t[i].outcome.returncode = 0)
       /\ platform.pc \in {"sample", "returned"} /\ platform.result # Some(FALSE) => Len(t) >= n
       /\ platform.pc = "returned" /\ platform.result # Some(FALSE) => Len(t) >= n + 1
       /\ platform.pc = "raised" =>
            \/ platform.dirs # SetupDirectoryNames
            \/ Len(t) = n + 1 /\ t[n + 1].success /\ IsNone(platform.answer)
       /\ Len(t) = n + 2 =>
            /\ t[n + 1].success
            /\ ~IsNone(platform.answer)
            /\ Val(platform.answer) \in {<<"y">>, <<" ", "Y", "E", "S", " ">>}

\* the dashboard was launched although two installs had failed
C12_Witness ==
    /\ platform.pc = "returned"
    /\ Len(platform.trace) = Len(SetupPackages) + 2
    /\ ~platform.trace[1].success
    /\ platform.trace[2].outcome.raised
    /\ platform.trace[3].success


(***************************************************************************)
(*         GEOGRAPHIC HIERARCHY: generate_enhanced_data.py                 *)
(*                                                                         *)
(* hierarchy = [pc, sheet, geo_columns, districts, blocks, panchayats].    *)
(* A sheet is None (no Excel data) or a sequence of rows; a row has the    *)
(* cells district, block, panchayat, each a name (a tuple of characters)   *)
(* or <<>> for an empty cell (NaN). A name built by an f-string is the     *)
(* base name followed by the suffix and the number.                        *)
(***************************************************************************)

MaxRows == 2

\* the cell values of the sheets, in the order pandas sorts them
SortedCells == << <<"A">>, <<"A", " ">>, <<"B">>, <<"P">>, <<"X">>, <<"Y">> >>
CellRank(c) == CHOOSE i \in 1..Len(SortedCells) : SortedCells[i] = c

SheetRows ==
    [district : {<<>>, <<"A">>, <<"A", " ">>, <<"B">>},
     block : {<<>>, <<"X">>, <<"Y">>},
     panchayat : {<<>>, <<"P">>}]

\* df[col].dropna().unique(): the non-empty values in order of appearance
RECURSIVE UniqueValues(_)
UniqueValues(cells) ==
    IF cells = <<>> THEN <<>>
    ELSE LET before == UniqueValues(SubSeq(cells, 1, Len(cells) - 1))
             c == cells[Len(cells)]
         IN IF c = <<>> \/ (\E i \in 1..Len(before) : before[i] = c)
            THEN before ELSE Append(before, c)

\* tuple order on group keys
RECURSIVE KeyLess(_, _)
KeyLess(a, b) ==
    IF a = <<>> THEN b # <<>>
    ELSE IF b = <<>> THEN FALSE
    ELSE IF Head(a) # Head(b) THEN CellRank(Head(a)) < CellRank(Head(b))
    ELSE KeyLess(Tail(a), Tail(b))

RECURSIVE SortKeys(_)
SortKeys(keys) ==
    IF keys = {} THEN <<>>
    ELSE LET first == CHOOSE k \in keys : \A other \in keys \ {k} : KeyLess(k, other)
         IN <<first>> \o SortKeys(keys \ {first})

\* df.groupby([columns]).size().items(): the keys of the rows that have
\* every key cell, sorted
GroupKeys(sheet, columns) ==
    SortKeys({[j \in 1..Len(columns) |-> sheet[i][columns[j]]] :
                 i \in {r \in 1..Len(sheet) :
                           \A j \in 1..Len(columns) : sheet[r][columns[j]] # <<>>}})

\* the first district with the name: its id, or None
FindDistrict(districts, name) ==
    LET hits == {i \in 1..Len(districts) : districts[i].district_name = name}
    IN IF hits = {} THEN None
       ELSE Some(districts[CHOOSE i \in hits : \A j \in hits : i <= j].district_id)

\* the first block of the district with the name: its id, or None
FindBlock(blocks, district_id, name) ==
    LET hits == {i \in 1..Len(blocks) :
                    /\ Some(blocks[i].district_id) = district_id
                    /\ blocks[i].block_name = name}
    IN IF hits = {} THEN None
       ELSE Some(blocks[CHOOSE i \in hits : \A j \in hits : i <= j].block_id)

\* lines 85-94
ExcelDistricts(sheet) ==
    LET unique_districts == UniqueValues([i \in 1..Len(sheet) |-> sheet[i].district])
    IN [i \in 1..Len(unique_districts) |->
           [district_id |-> i, district_name |-> Strip(unique_districts[i])]]

\* lines 103-119: the loop over the block groups
RECURSIVE ExcelBlocks(_, _, _, _)
ExcelBlocks(keys, districts, blocks, block_id) ==
    IF keys = <<>> THEN blocks
    ELSE LET district_id == FindDistrict(districts, Strip(Head(keys)[1]))
         IN IF ~IsNone(district_id) /\ Val(district_id) # 0
            THEN ExcelBlocks(Tail(keys), districts,
                     Append(blocks, [district_id |-> Val(district_id),
                                     block_id |-> block_id,
                                     block_name |-> Strip(Head(keys)[2])]),
                     block_id + 1)
            ELSE ExcelBlocks(Tail(keys), districts, blocks, block_id)

\* lines 128-152: the loop over the panchayat groups
RECURSIVE ExcelPanchayats(_, _, _, _, _)
ExcelPanchayats(keys, districts, blocks, panchayats, panchayat_id) ==
    IF keys = <<>> THEN panchayats
    ELSE LET district_id == FindDistrict(districts, Strip(Head(keys)[1]))
             block_id == FindBlock(blocks, district_id, Strip(Head(keys)[2]))
         IN IF ~IsNone(district_id) /\ Val(district_id) # 0
               /\ ~IsNone(block_id) /\ Val(block_id) # 0
            THEN ExcelPanchayats(Tail(keys), districts, blocks,
                     Append(panchayats, [district_id |-> Val(district_id),
                                         block_id |-> Val(block_id),
                                         panchayat_id |-> panchayat_id,
                                         panchayat_name |-> Strip(Head(keys)[3])]),
                     panchayat_id + 1)
            ELSE ExcelPanchayats(Tail(keys), districts, blocks, panchayats, panchayat_id)

RECURSIVE MakeBlocks(_, _, _, _)

\* blocks whose ids start again at 1 in every district
MakeBlocksNumberedPerDistrict(districts, d, num_blocks, blocks) ==
    IF d > Len(districts) THEN blocks
    ELSE MakeBlocks(districts, d + 1, num_blocks,
             blocks \o [j \in 1..num_blocks[d] |->
                          [district_id |-> districts[d].district_id,
                           block_id |-> j,
                           block_name |-> districts[d].district_name
                                             \o <<"_Block_", j>>]])

\* blocks for the districts from index d on, num_blocks[d] each
MakeBlocks(districts, d, num_blocks, blocks) ==
    IF d > Len(districts) THEN blocks
    ELSE MakeBlocks(districts, d + 1, num_blocks,
             blocks \o [j \in 1..num_blocks[d] |->
                          [district_id |-> districts[d].district_id,
                           block_id |-> Len(blocks) + j,
                           block_name |-> districts[d].district_name
                                             \o <<"_Block_", j>>]])

\* panchayats for the blocks from index b on, num_panchayats[b] each
RECURSIVE MakePanchayats(_, _, _, _)
MakePanchayats(blocks, b, num_panchayats, panchayats) ==
    IF b > Len(blocks) THEN panchayats
    ELSE MakePanchayats(blocks, b + 1, num_panchayats,
             panchayats \o [k \in 1..num_panchayats[b] |->
                              [district_id |-> blocks[b].district_id,
                               block_id |-> blocks[b].block_id,
                               panchayat_id |-> Len(panchayats) + k,
                               panchayat_name |-> blocks[b].block_name
                                                     \o <<"_Panchayat_", k>>]])

tn_districts ==
    <<"Chennai", "Coimbatore", "Salem", "Madurai", "Tiruchirappalli",
      "Tirunelveli", "Vellore", "Erode", "Thanjavur", "Dindigul">>

\* create_default_tamil_nadu_hierarchy for the draws num_blocks (per
\* district) and num_panchayats (per block)
create_default_tamil_nadu_hierarchy(num_blocks, num_panchayats) ==
    LET districts == [i \in 1..Len(tn_districts) |->
                         [district_id |-> i, district_name |-> <<tn_districts[i]>>]]
        blocks == MakeBlocks(districts, 1, num_blocks, <<>>)
    IN [districts |-> districts,
        blocks |-> blocks,
        panchayats |-> MakePanchayats(blocks, 1, num_panchayats, <<>>)]

\* draws of np.random.randint(3, 6) per district and np.random.randint(5, 11)
\* per block
BlockDraws ==
    {[d \in 1..10 |-> 3], [d \in 1..10 |-> 5], [d \in 1..10 |-> 3 + (d % 3)]}
PanchayatDraws ==
    {[b \in 1..50 |-> 5], [b \in 1..50 |-> 10], [b \in 1..50 |-> 5 + (b % 6)]}

\* ensure_complete_hierarchy
ensure_complete_hierarchy(h, num_blocks, num_panchayats) ==
    IF h.districts = <<>>
    THEN create_default_tamil_nadu_hierarchy(num_blocks, num_panchayats)
    ELSE LET blocks == IF h.blocks = <<>>
                       THEN MakeBlocks(h.districts, 1,
                                [d \in 1..Len(h.districts) |-> 3], <<>>)
                       ELSE h.blocks
         IN [districts |-> h.districts,
             blocks |-> blocks,
             panchayats |-> IF blocks # <<>> /\ h.panchayats = <<>>
                            THEN MakePanchayats(blocks, 1,
                                     [b \in 1..Len(blocks) |-> 5], <<>>)
                            ELSE h.panchayats]

\* create_hierarchy_from_excel, lines 82-154: what the sheet gives
ExtractedLevels(sheet, geo_columns) ==
    LET districts == IF "district" \in geo_columns THEN ExcelDistricts(sheet) ELSE <<>>
        blocks == IF {"block", "district"} \subseteq geo_columns
                  THEN ExcelBlocks(GroupKeys(sheet, <<"district", "block">>),
                                   districts, <<>>, 1)
                  ELSE <<>>
        panchayats == IF {"panchayat", "block", "district"} \subseteq geo_columns
                      THEN ExcelPanchayats(
                               GroupKeys(sheet, <<"district", "block", "panchayat">>),
                               districts, blocks, <<>>, 1)
                      ELSE <<>>
    IN [districts |-> districts, blocks |-> blocks, panchayats |-> panchayats]

\* create_hierarchy_from_excel
create_hierarchy_from_excel(sheet, geo_columns, num_blocks, num_panchayats) ==
    ensure_complete_hierarchy(ExtractedLevels(sheet, geo_columns),
                              num_blocks, num_panchayats)

\* whether building from the sheet draws random numbers at all
NeedsDraws(sheet, geo_columns) == ExtractedLevels(sheet, geo_columns).districts = <<>>

HierarchyInit ==
    /\ hierarchy \in [pc : {"loaded"},
                      sheet : {None} \cup
                              {Some(rows) : rows \in UNION {[1..n -> SheetRows] : n \in 0..MaxRows}},
                      geo_columns : SUBSET {"district", "block", "panchayat"},
                      districts : {<<>>}, blocks : {<<>>}, panchayats : {<<>>}]
    \* a column that was not recognised plays no part: its cells are left empty
    /\ IF IsNone(hierarchy.sheet) THEN hierarchy.geo_columns = {}
       ELSE \A c \in {"district", "block", "panchayat"} \ hierarchy.geo_columns :
               \A i \in 1..Len(Val(hierarchy.sheet)) : Val(hierarchy.sheet)[i][c] = <<>>
    /\ AgentsIdle
    /\ pipeline = Off /\ platform = Off /\ borrower = Off
    /\ bucket = Off /\ lending = Off /\ params = Off

\* extract_geographic_hierarchy, lines 49-71: the first sheet gives the
\* hierarchy. The draws are used only when the default hierarchy is built.
FromExcel ==
    /\ hierarchy.pc = "loaded"
    /\ ~IsNone(hierarchy.sheet)
    /\ \E num_blocks \in IF NeedsDraws(Val(hierarchy.sheet), hierarchy.geo_columns)
                         THEN BlockDraws ELSE {[d \in 1..10 |-> 3]},
          num_panchayats \in IF NeedsDraws(Val(hierarchy.sheet), hierarchy.geo_columns)
                             THEN PanchayatDraws ELSE {[b \in 1..50 |-> 5]} :
         LET h == create_hierarchy_from_excel(Val(hierarchy.sheet), hierarchy.geo_columns,
                                              num_blocks, num_panchayats)
         IN hierarchy' = [hierarchy EXCEPT !.pc = "built",
                                           !.districts = h.districts,
                                           !.blocks = h.blocks,
                                           !.panchayats = h.panchayats]
    /\ UNCHANGED hierarchyOthers

\* extract_geographic_hierarchy, lines 73-75: no Excel data
Default ==
    /\ hierarchy.pc = "loaded"
    /\ IsNone(hierarchy.sheet)
    /\ \E num_blocks \in BlockDraws, num_panchayats \in PanchayatDraws :
         LET h == create_default_tamil_nadu_hierarchy(num_blocks, num_panchayats)
         IN hierarchy' = [hierarchy EXCEPT !.pc = "built",
                                           !.districts = h.districts,
                                           !.blocks = h.blocks,
                                           !.panchayats = h.panchayats]
    /\ UNCHANGED hierarchyOthers

HierarchyNext == FromExcel \/ Default

SpecHierarchy == HierarchyInit /\ [][HierarchyNext]_vars


(* C13: the hierarchy built from any sheet is complete: districts, blocks  *)
(* and panchayats are all non-empty, every district has at least one       *)
(* block and every block has at least one panchayat.                       *)
C13_HierarchyComplete ==
    hierarchy.pc = "built" =>
        /\ hierarchy.districts # <<>>
        /\ hierarchy.blocks # <<>>
        /\ hierarchy.panchayats # <<>>
        /\ \A d \in 1..Len(hierarchy.districts) :
             \E b \in 1..Len(hierarchy.blocks) :
                hierarchy.blocks[b].district_id = hierarchy.districts[d].district_id
        /\ \A b \in 1..Len(hierarchy.blocks) :
             \E q \in 1..Len(hierarchy.panchayats) :
                hierarchy.panchayats[q].block_id = hierarchy.blocks[b].block_id

\* the ids found at a level
IdsOf(level, field) == {level[i][field] : i \in 1..Len(level)}

(* C18: in every hierarchy that is built district_id, block_id and         *)
(* panchayat_id are each unique and numbered consecutively from 1; every   *)
(* block's district_id names an existing district; every panchayat's       *)
(* block_id names an existing block whose district_id is the panchayat's   *)
(* district_id.                                                            *)
C18_IdsConsistent ==
    hierarchy.pc = "built" =>
        /\ IdsOf(hierarchy.districts, "district_id") = 1..Len(hierarchy.districts)
        /\ IdsOf(hierarchy.blocks, "block_id") = 1..Len(hierarchy.blocks)
        /\ IdsOf(hierarchy.panchayats, "panchayat_id") = 1..Len(hierarchy.panchayats)
        /\ \A b \in 1..Len(hierarchy.blocks) :
             hierarchy.blocks[b].district_id \in IdsOf(hierarchy.districts, "district_id")
        /\ \A q \in 1..Len(hierarchy.panchayats) :
             \E b \in 1..Len(hierarchy.blocks) :
                /\ hierarchy.blocks[b].block_id = hierarchy.panchayats[q].block_id
                /\ hierarchy.blocks[b].district_id = hierarchy.panchayats[q].district_id

\* a sheet with the districts "A" and "A " and all three levels filled by
\* the sheet and the completion: two districts of one name, blocks made up
C18_Witness ==
    /\ hierarchy.pc = "built"
    /\ ~IsNone(hierarchy.sheet)
    /\ hierarchy.geo_columns = {"district", "panchayat"}
    /\ Len(hierarchy.districts) = 2
    /\ hierarchy.districts[1].district_name = hierarchy.districts[2].district_name
    /\ Len(hierarchy.blocks) = 6
    /\ Len(hierarchy.panchayats) = 30


(***************************************************************************)
(*      BORROWER RISK: generate_enhanced_data.py, lines 283-342, 412-521   *)
(*                                                                         *)
(* borrower = [pc, row, u, risks]: one iteration of the borrower loop with *)
(* the values drawn (row), the draw u of generate_realistic_expenses in    *)
(* hundredths, and the risks computed.                                     *)
(* Fixed point: a partial risk (age_risk, income_risk, ...) is in 1/600,   *)
(* a component risk in 1/7200, the overall risk in 1/720000; distances are *)
(* in tenths of a km, land in tenths of an acre. On the values drawn here  *)
(* every division is exact.                                                *)
(***************************************************************************)

\* generate_realistic_income: values of np.random.randint for the age
generate_realistic_income(age) ==
    IF age < 25 THEN {8000, 24000}
    ELSE IF age < 45 THEN {12000, 30000, 44000}
    ELSE IF age < 60 THEN {10000, 39000}
    ELSE {5000, 19000}

\* generate_realistic_expenses: int(income * u * (1 + (family_size - 2) * 0.1))
generate_realistic_expenses(income, family_size, u) ==
    ((income \div 1000) * u * (10 + (family_size - 2)))

calculate_demographic_risk(age, income, education, family_size) ==
    LET age_risk == IF 25 <= age /\ age <= 50 THEN 60
                    ELSE IF age < 25 \/ age > 60 THEN 420 ELSE 240
        income_risk == Max2(0, Min2(600, (30000 - income) \div 50))
        education_risk ==
            CASE education = "illiterate" -> 480
              [] education = "primary" -> 360
              [] education = "secondary" -> 240
              [] education = "higher_secondary" -> 180
              [] education = "graduate" -> 60
              [] education = "postgraduate" -> 30
              [] OTHER -> 300
        family_risk == Min2(600, Max2(0, (family_size - 4) * 60))
    IN (age_risk + income_risk + education_risk + family_risk) * 3

calculate_financial_risk(credit_months, existing_loans, has_savings, income, expenses) ==
    LET credit_risk == IF credit_months < 24 THEN Max2(0, 25 * (24 - credit_months)) ELSE 60
        loan_risk == Min2(600, 200 * existing_loans)
        savings_risk == IF has_savings THEN 120 ELSE 360
        \* (expenses / income - 0.5) / 0.3
        expense_risk == Max2(0, Min2(600, (1000 * (2 * expenses - income)) \div income))
    IN (credit_risk + loan_risk + savings_risk + expense_risk) * 3

calculate_asset_risk(owns_land, land_size, owns_livestock, livestock_count) ==
    LET land_risk == IF owns_land THEN Max2(0, 30 * (20 - land_size)) ELSE 480
        livestock_risk == IF owns_livestock THEN Max2(0, 120 * (5 - livestock_count)) ELSE 360
    IN (land_risk + livestock_risk) * 6

\* the geographic risk with road_risk left as 5 - road_score
calculate_geographic_riskRoadUnscaled(bank_distance, market_distance, road_score, has_electricity) ==
    LET bank_risk == Min2(600, 3 * bank_distance)
        market_risk == Min2(600, (12 * market_distance) \div 5)
        road_risk == 600 * (5 - road_score)
        electricity_risk == IF has_electricity THEN 120 ELSE 360
    IN (bank_risk + market_risk + road_risk + electricity_risk) * 3

calculate_geographic_risk(bank_distance, market_distance, road_score, has_electricity) ==
    LET bank_risk == Min2(600, 3 * bank_distance)
        market_risk == Min2(600, (12 * market_distance) \div 5)
        road_risk == 150 * (5 - road_score)
        electricity_risk == IF has_electricity THEN 120 ELSE 360
    IN (bank_risk + market_risk + road_risk + electricity_risk) * 3

calculate_social_risk(shg_member, govt_beneficiary, mobile_phone) ==
    LET shg_risk == IF shg_member THEN 120 ELSE 360
        govt_risk == IF govt_beneficiary THEN 180 ELSE 300
        mobile_risk == IF mobile_phone THEN 60 ELSE 420
    IN (shg_risk + govt_risk + mobile_risk) * 4

\* the weights of lines 336-342, in hundredths
OverallWeights ==
    [demographic_risk |-> 20, financial_risk |-> 30, asset_risk |-> 20,
     geographic_risk |-> 20, social_risk |-> 10]

\* two borrowers the generator can draw, one at the safe and one at the
\* risky end of every range
ReferenceBorrowers ==
    {[age |-> 30, income |-> 44000, education |-> "postgraduate", family_size |-> 2,
      credit_history_months |-> 119, existing_loans |-> 0, has_savings_account |-> TRUE,
      owns_land |-> TRUE, land_size_acres |-> 50, owns_livestock |-> TRUE,
      livestock_count |-> 19, distance_to_bank |-> 5, distance_to_market |-> 5,
      road_connectivity |-> 4, electricity_access |-> TRUE, group_membership |-> TRUE,
      government_scheme_beneficiary |-> TRUE, mobile_phone_ownership |-> TRUE],
     [age |-> 74, income |-> 5000, education |-> "illiterate", family_size |-> 7,
      credit_history_months |-> 0, existing_loans |-> 3, has_savings_account |-> FALSE,
      owns_land |-> FALSE, land_size_acres |-> 0, owns_livestock |-> FALSE,
      livestock_count |-> 0, distance_to_bank |-> 250, distance_to_market |-> 300,
      road_connectivity |-> 1, electricity_access |-> FALSE, group_membership |-> FALSE,
      government_scheme_beneficiary |-> FALSE, mobile_phone_ownership |-> FALSE]}

Educations ==
    {"illiterate", "primary", "secondary", "higher_secondary", "graduate", "postgraduate"}

\* lines 289-326: a reference borrower with the inputs of one component
\* drawn over their ranges
DrawnBorrowers(r) ==
    {[r EXCEPT !.age = age, !.income = income, !.education = education,
               !.family_size = family_size] :
        age \in {18, 24, 25, 44, 50, 51, 60, 61, 74},
        income \in UNION {generate_realistic_income(a) : a \in {18, 30, 50, 70}},
        education \in Educations, family_size \in 2..7}
    \cup
    {[r EXCEPT !.credit_history_months = m, !.existing_loans = l,
               !.has_savings_account = sv, !.family_size = family_size] :
        m \in {0, 12, 23, 24, 119}, l \in 0..3, sv \in BOOLEAN, family_size \in 2..7}
    \cup
    {[r EXCEPT !.owns_land = TRUE, !.land_size_acres = ls, !.owns_livestock = TRUE,
               !.livestock_count = lc] : ls \in {1, 20, 50}, lc \in {1, 5, 19}}
    \cup
    {[r EXCEPT !.owns_land = FALSE, !.land_size_acres = 0, !.owns_livestock = lv,
               !.livestock_count = IF lv THEN 3 ELSE 0] : lv \in BOOLEAN}
    \cup
    {[r EXCEPT !.distance_to_bank = b, !.distance_to_market = mk,
               !.road_connectivity = rd, !.electricity_access = el] :
        b \in {5, 100, 200, 250}, mk \in {5, 250, 300}, rd \in 1..4, el \in BOOLEAN}
    \cup
    {[r EXCEPT !.group_membership = g, !.government_scheme_beneficiary = gv,
               !.mobile_phone_ownership = mb] :
        g \in BOOLEAN, gv \in BOOLEAN, mb \in BOOLEAN}

BorrowerInit ==
    /\ borrower \in [pc : {"drawn"},
                     row : {row \in UNION {DrawnBorrowers(r) : r \in ReferenceBorrowers} :
                               row.income \in generate_realistic_income(row.age)},
                     u : {60, 75, 90},
                     risks : {None}]
    /\ AgentsIdle
    /\ pipeline = Off /\ platform = Off /\ hierarchy = Off
    /\ bucket = Off /\ lending = Off /\ params = Off

\* lines 306 and 329-342: the expenses, the five component risks and the
\* weighted overall risk of the borrower
ScoreBorrower ==
    /\ borrower.pc = "drawn"
    /\ LET row == borrower.row
           monthly_expenses ==
               generate_realistic_expenses(row.income, row.family_size, borrower.u)
           component ==
               [demographic_risk |->
                    calculate_demographic_risk(row.age, row.income, row.education,
                                               row.family_size),
                financial_risk |->
                    calculate_financial_risk(row.credit_history_months, row.existing_loans,
                                             row.has_savings_account, row.income,
                                             monthly_expenses),
                asset_risk |->
                    calculate_asset_risk(row.owns_land, row.land_size_acres,
                                         row.owns_livestock, row.livestock_count),
                geographic_risk |->
                    calculate_geographic_risk(row.distance_to_bank, row.distance_to_market,
                                              row.road_connectivity, row.electricity_access),
                social_risk |->
                    calculate_social_risk(row.group_membership,
                                          row.government_scheme_beneficiary,
                                          row.mobile_phone_ownership)]
       IN borrower' = [borrower EXCEPT
              !.pc = "scored",
              !.risks = Some([component |-> component,
                              monthly_expenses |-> monthly_expenses,
                              overall_risk_score |->
                                  component.demographic_risk * OverallWeights.demographic_risk
                                  + component.financial_risk * OverallWeights.financial_risk
                                  + component.asset_risk * OverallWeights.asset_risk
                                  + component.geographic_risk * OverallWeights.geographic_risk
                                  + component.social_risk * OverallWeights.social_risk])]
    /\ UNCHANGED borrowerOthers

BorrowerNext == ScoreBorrower

SpecBorrower == BorrowerInit /\ [][BorrowerNext]_vars

(* C14: for every borrower drawn from the generator's ranges each of       *)
(* demographic_risk, financial_risk, asset_risk, geographic_risk and       *)
(* social_risk lies in [0, 1], the five weights 0.20, 0.30, 0.20, 0.20,    *)
(* 0.10 sum to 1, and overall_risk_score lies in [0, 1].                   *)
C14_RisksInUnitInterval ==
    /\ OverallWeights.demographic_risk = 20 /\ OverallWeights.financial_risk = 30
    /\ OverallWeights.asset_risk = 20 /\ OverallWeights.geographic_risk = 20
    /\ OverallWeights.social_risk = 10
    /\ OverallWeights.demographic_risk + OverallWeights.financial_risk
         + OverallWeights.asset_risk + OverallWeights.geographic_risk
         + OverallWeights.social_risk = 100
    /\ borrower.pc = "scored" =>
         /\ \A c \in DOMAIN Val(borrower.risks).component :
               /\ 0 <= Val(borrower.risks).component[c]
               /\ Val(borrower.risks).component[c] <= 7200
         /\ 0 <= Val(borrower.risks).overall_risk_score
         /\ Val(borrower.risks).overall_risk_score <= 720000

\* the riskiest borrower: no credit history, three loans, no savings,
\* expenses of 1.35 times the income, far from everything
C14_Witness ==
    /\ borrower.pc = "scored"
    /\ Val(borrower.risks).component.financial_risk = 6480
    /\ Val(borrower.risks).component.geographic_risk = 6480
    /\ borrower.row.road_connectivity = 1
    /\ Val(borrower.risks).monthly_expenses * 100 = 135 * borrower.row.income


(***************************************************************************)
(*   RISK BUCKETS: generate_enhanced_data.categorize_risk and the two      *)
(*   inline chains of generate_sample_data.py                              *)
(*                                                                         *)
(* bucket = [pc, score, labels]. A score is a float: NaN, or a number kept *)
(* in ten-thousandths (the district average is rounded to 4 places).       *)
(***************************************************************************)

NaN == [nan |-> TRUE, v |-> 0]
Float(v) == [nan |-> FALSE, v |-> v]

\* x <= t of floats: false for NaN
FloatLeq(x, t) == ~x.nan /\ x.v <= t

\* generate_enhanced_data.categorize_risk
categorize_risk(score) ==
    IF FloatLeq(score, 2000) THEN "Very Low"
    ELSE IF FloatLeq(score, 4000) THEN "Low"
    ELSE IF FloatLeq(score, 6000) THEN "Medium"
    ELSE IF FloatLeq(score, 8000) THEN "High"
    ELSE "Very High"

\* generate_sample_data, lines 90-96: the borrower's risk_category
risk_category(overall_risk) ==
    IF FloatLeq(overall_risk, 2000) THEN "Very Low"
    ELSE IF FloatLeq(overall_risk, 4000) THEN "Low"
    ELSE IF FloatLeq(overall_risk, 6000) THEN "Medium"
    ELSE IF FloatLeq(overall_risk, 8000) THEN "High"
    ELSE "Very High"

\* the district chain with strict comparisons
risk_levelStrict(x) ==
    IF ~x.nan /\ x.v < 2000 THEN "Very Low"
    ELSE IF ~x.nan /\ x.v < 4000 THEN "Low"
    ELSE IF ~x.nan /\ x.v < 6000 THEN "Medium"
    ELSE IF ~x.nan /\ x.v < 8000 THEN "High"
    ELSE "Very High"

\* generate_sample_data, lines 118-126: the district's risk_level
risk_level(x) ==
    IF FloatLeq(x, 2000) THEN "Very Low"
    ELSE IF FloatLeq(x, 4000) THEN "Low"
    ELSE IF FloatLeq(x, 6000) THEN "Medium"
    ELSE IF FloatLeq(x, 8000) THEN "High"
    ELSE "Very High"

BucketInit ==
    /\ bucket \in [pc : {"scored"},
                   score : {NaN} \cup {Float(v) : v \in -5..10005},
                   labels : {None}]
    /\ AgentsIdle
    /\ pipeline = Off /\ platform = Off /\ hierarchy = Off
    /\ borrower = Off /\ lending = Off /\ params = Off

\* the three programs label the score
Categorize ==
    /\ bucket.pc = "scored"
    /\ bucket' = [bucket EXCEPT
           !.pc = "labelled",
           !.labels = Some([categorize_risk |-> categorize_risk(bucket.score),
                            risk_category |-> risk_category(bucket.score),
                            risk_level |-> risk_level(bucket.score)])]
    /\ UNCHANGED bucketOthers

BucketNext == Categorize

SpecBucket == BucketInit /\ [][BucketNext]_vars

BucketOrder == <<"Very Low", "Low", "Medium", "High", "Very High">>
BucketRank(label) == CHOOSE i \in 1..5 : BucketOrder[i] = label

(* C15: categorize_risk maps a score to Very Low (<= 0.2), Low (<= 0.4),   *)
(* Medium (<= 0.6), High (<= 0.8), Very High (> 0.8); it is total and      *)
(* monotone in the score; generate_sample_data's per-borrower              *)
(* risk_category and per-district risk_level give the same label as        *)
(* categorize_risk for every score.                                        *)
C15_SameBuckets ==
    bucket.pc = "labelled" =>
        LET l == Val(bucket.labels)
            s == bucket.score
        IN /\ l.categorize_risk \in {BucketOrder[i] : i \in 1..5}
           /\ l.risk_category = l.categorize_risk
           /\ l.risk_level = l.categorize_risk
           /\ ~s.nan =>
                /\ (l.categorize_risk = "Very Low") <=> (s.v <= 2000)
                /\ (l.categorize_risk = "Low") <=> (2000 < s.v /\ s.v <= 4000)
                /\ (l.categorize_risk = "Medium") <=> (4000 < s.v /\ s.v <= 6000)
                /\ (l.categorize_risk = "High") <=> (6000 < s.v /\ s.v <= 8000)
                /\ (l.categorize_risk = "Very High") <=> (s.v > 8000)
                /\ BucketRank(l.categorize_risk)
                      <= BucketRank(categorize_risk(Float(s.v + 1)))

\* a score on a boundary: 0.6 is Medium in all three
C15_Witness ==
    /\ bucket.pc = "labelled"
    /\ bucket.score = Float(6000)
    /\ Val(bucket.labels) = [categorize_risk |-> "Medium", risk_category |-> "Medium",
                             risk_level |-> "Medium"]


(***************************************************************************)
(* LENDING ENVIRONMENT RISK (banking_parameter_agent.py)                   *)
(*                                                                         *)
(* calculate_lending_risk_score on climate alerts, economic indicators and *)
(* regional factors.  Points are kept in two-hundredths of a point         *)
(* (Points), percentages in hundredths of a percent, so that               *)
(* (inflation - 4) * 2 + (unemployment - 5) * 1.5 is exact.                *)
(***************************************************************************)
Points(n) == n * 200

MaxAlerts == 4
Severities == {"High", "Medium", "Low", "Severe"}
ClimateAlerts == UNION {[1..n -> Severities] : n \in 0..MaxAlerts}

\* inflation_rate and unemployment_rate in hundredths of a percent;
\* 585 and 720 are the agent's own figures
InflationRates == {200, 585, 2000}
UnemploymentRates == {300, 720, 1500}

\* the agent's five regions, each with any risk_level, and shorter tables
RegionNames == <<"chennai", "coimbatore", "madurai", "salem", "tiruchirappalli">>
RegionLevels == {"Low", "Medium", "High"}
RegionalFactors ==
    UNION {[{RegionNames[i] : i \in 1..n} -> RegionLevels] : n \in 0..Len(RegionNames)}

RECURSIVE climate_score(_)
climate_score(alerts) ==
    IF alerts = <<>> THEN 0
    ELSE LET n == Len(alerts)
             severity == alerts[n]
             rest == climate_score(SubSeq(alerts, 1, n - 1))
         IN IF severity = "High" THEN rest + 10
            ELSE IF severity = "Medium" THEN rest + 5
            ELSE IF severity = "Low" THEN rest + 2
            ELSE rest

climate_risk(alerts) == Points(Min2(climate_score(alerts), 30))

economic_risk(inflation, unemployment) ==
    Max2(0, Min2((inflation - 400) * 4 + (unemployment - 500) * 3, Points(25)))

high_risk_regions(regional_factors) ==
    Cardinality({r \in DOMAIN regional_factors : regional_factors[r] = "High"})

regional_risk(regional_factors) == Points(high_risk_regions(regional_factors) * 5)

calculate_lending_risk_score(alerts, inflation, unemployment, regional_factors) ==
    LET climate == climate_risk(alerts)
        economic == economic_risk(inflation, unemployment)
        regional == regional_risk(regional_factors)
        social_risk == Points(5)
        tech_risk == Points(3)
        total_risk == climate + economic + regional + social_risk + tech_risk
        risk_score == Min2(total_risk, Points(100))
    IN [overall_risk_score |-> risk_score,
        risk_level |-> IF risk_score < Points(30) THEN "Low"
                       ELSE IF risk_score < Points(60) THEN "Medium"
                       ELSE "High",
        components |-> [climate_risk |-> climate,
                        economic_risk |-> economic,
                        regional_risk |-> regional,
                        social_risk |-> social_risk,
                        technology_risk |-> tech_risk]]

LendingInit ==
    /\ lending \in [pc : {"collected"},
                    climate_alerts : ClimateAlerts,
                    inflation_rate : InflationRates,
                    unemployment_rate : UnemploymentRates,
                    regional_factors : RegionalFactors,
                    risk_assessment : {None}]
    /\ AgentsIdle
    /\ pipeline = Off /\ platform = Off /\ hierarchy = Off
    /\ borrower = Off /\ bucket = Off /\ params = Off

\* risk_assessment = agent.calculate_lending_risk_score(...)
CalculateLendingRisk ==
    /\ lending.pc = "collected"
    /\ lending' = [lending EXCEPT
           !.pc = "assessed",
           !.risk_assessment = Some(calculate_lending_risk_score(
               lending.climate_alerts, lending.inflation_rate,
               lending.unemployment_rate, lending.regional_factors))]
    /\ UNCHANGED lendingOthers

LendingNext == CalculateLendingRisk

SpecLending == LendingInit /\ [][LendingNext]_vars

\* everything the claim says except the range of regional_risk
LendingScoreShape(a) ==
    LET c == a.components
    IN /\ 0 <= c.climate_risk /\ c.climate_risk <= Points(30)
       /\ 0 <= c.economic_risk /\ c.economic_risk <= Points(25)
       /\ 0 <= c.social_risk /\ c.social_risk <= Points(15)
       /\ 0 <= c.technology_risk /\ c.technology_risk <= Points(10)
       /\ 0 <= a.overall_risk_score /\ a.overall_risk_score <= Points(100)
       /\ a.risk_level = "Low" <=> a.overall_risk_score < Points(30)
       /\ a.risk_level = "Medium" <=>
              (Points(30) <= a.overall_risk_score /\ a.overall_risk_score < Points(60))
       /\ a.risk_level = "High" <=> a.overall_risk_score >= Points(60)

(* C16: for any climate alerts, economic indicators and regional factors,  *)
(* calculate_lending_risk_score returns climate_risk in 0..30,             *)
(* economic_risk in 0..25, regional_risk in 0..20, social_risk in 0..15,   *)
(* technology_risk in 0..10 and an overall_risk_score in 0..100, with      *)
(* risk_level Low below 30, Medium below 60 and High otherwise.            *)
C16_ScoreWithinRanges ==
    lending.pc = "assessed" =>
        LET a == Val(lending.risk_assessment)
        IN /\ LendingScoreShape(a)
           /\ 0 <= a.components.regional_risk
           /\ a.components.regional_risk <= Points(20)

\* the rest of C16 holds on every input: only regional_risk leaves its range
C16_AllButRegionalRange ==
    lending.pc = "assessed" => LendingScoreShape(Val(lending.risk_assessment))

\* the agent's own alerts and indicators with all five regions rated High
C16_FiveHighRegions ==
    /\ lending.pc = "assessed"
    /\ lending.climate_alerts = <<"Medium", "High", "Low">>
    /\ lending.inflation_rate = 585 /\ lending.unemployment_rate = 720
    /\ high_risk_regions(lending.regional_factors) = 5
    /\ Val(lending.risk_assessment).components.regional_risk = Points(25)
    /\ Val(lending.risk_assessment).overall_risk_score = Points(57)


(***************************************************************************)
(* REPEATED GET /api/banking-parameters (banking_intelligence_api.py)      *)
(*                                                                         *)
(* Two requests for the same location, the second some minutes after the   *)
(* first.  get_banking_parameters calls get_current_parameters on every    *)
(* request, and get_current_parameters draws its values afresh on every    *)
(* call: the object keeps nothing between calls but last_updated, which    *)
(* no handler reads.  The timestamp field is left out of the compared      *)
(* values.                                                                 *)
(***************************************************************************)
ParamLocations == {"Tamil Nadu", "Chennai"}
WaitMinutes == {7, 8}
MaxElapsed == 16

ParamsInit ==
    /\ params \in [pc : {"idle"}, location : ParamLocations, elapsed : {0},
                   first : {None}, second : {None}]
    /\ AgentsIdle
    /\ pipeline = Off /\ platform = Off /\ hierarchy = Off
    /\ borrower = Off /\ bucket = Off /\ lending = Off

\* the first GET /api/banking-parameters?location=...
FirstRequest ==
    /\ params.pc = "idle"
    /\ \E data \in CurrentParameters(params.location) :
           params' = [params EXCEPT !.pc = "served", !.first = Some(data)]
    /\ UNCHANGED paramsOthers

\* time passes between the two requests
Elapse ==
    /\ params.pc = "served"
    /\ \E m \in WaitMinutes :
           /\ params.elapsed + m <= MaxElapsed
           /\ params' = [params EXCEPT !.elapsed = params.elapsed + m]
    /\ UNCHANGED paramsOthers

\* the same request again: a fresh call of get_current_parameters
RepeatedRequest ==
    /\ params.pc = "served"
    /\ \E data \in CurrentParameters(params.location) :
           params' = [params EXCEPT !.pc = "repeated", !.second = Some(data)]
    /\ UNCHANGED paramsOthers

ParamsNext == FirstRequest \/ Elapse \/ RepeatedRequest

SpecParams == ParamsInit /\ [][ParamsNext]_vars

(* C17: the banking-parameters data is valid for 15 minutes: a repeated    *)
(* call of get_current_parameters for the same location within             *)
(* validity_minutes of the first returns the same parameter values as the  *)
(* first call.                                                             *)
C17_RepeatedCallSameValues ==
    (params.pc = "repeated"
        /\ params.elapsed < Val(params.first).validity_minutes)
    => Val(params.second) = Val(params.first)

\* what does hold: both answers carry the location asked for and
\* validity_minutes = 15
C17_ValidityAnnounced ==
    params.pc = "repeated" =>
        /\ Val(params.first).validity_minutes = 15
        /\ Val(params.second).validity_minutes = 15
        /\ Val(params.first).location = params.location
        /\ Val(params.second).location = params.location

=============================================================================
